---- MODULE Spec2Model ----
(***************************************************************************)
(* Model of restore_cocos_assets.py: recovery of audio, atlases, skeleton  *)
(* bundles and animation clips from a compiled Cocos Creator asset tree.   *)
(*                                                                         *)
(* Python strings are sequences of one-character strings, so that slicing, *)
(* regular expressions and safe_slug are computed character by character.  *)
(* Python values of loosely typed documents are tagged records             *)
(* [k |-> kind, v |-> value].  Floats are exact fractions [num, den].      *)
(***************************************************************************)
EXTENDS Integers, Sequences, FiniteSets, TLC

VARIABLES
    \* sequence inference (main, step 4)
    frame_keys,      \* list(group["frames"].keys()) of the group being processed
    series,          \* the series dict, as a list of [base, lst] in insertion order
    series_i,        \* position of the loop over series.items()
    clips_written,   \* the clips the inference loop has written (json.dump), in order
    ipc,             \* position of the inference step
    \* parse_animation_clip
    clip_case,       \* how clip_doc was put together
    clip_doc,        \* the parsed JSON document handed to parse_animation_clip
    clips_out,       \* the list parse_animation_clip returned
    cpc,             \* "call" before the call, "returned" after it
    \* a run of main(), and the runs that follow it on the same output directory
    argv_len,        \* len(sys.argv)
    has_import,      \* os.path.isdir(import_root)
    has_native,      \* os.path.isdir(native_root)
    native,          \* the files below native_root, in os.walk order
    doc_cases,       \* the .json files below import_root, in os.walk order
    fs,              \* the files below output_dir: path -> content
    dirs,            \* the directories made so far, output_dir among them
    pc,              \* position of the run in main()
    exit_code,       \* exit status, -1 while the run has not ended
    run_no,          \* 1 for the first run
    native_by_prefix,\* bucket prefix -> candidate images
    atlas_groups,    \* texture reference -> frames and sources, in insertion order
    loop_i,          \* position of the loop the run is in
    auto_collected,  \* entries of animations_auto/index.json
    fs_first,        \* fs as the first run left it (history)
    fs0,             \* fs before the first run (history)
    dirs0,           \* dirs before the first run (history)
    \* get_image_size
    img,             \* the image file the bytes are taken from
    img_bytes,       \* the bytes of the file handed to the reader
    size_out,        \* what the reader returned
    spc,
    \* the texture of a skeleton bundle
    tex_case,        \* atlas text, texture indices, identifier table, native files
    target_image,    \* the image chosen, as a list of 0 or 1 files
    tpc,
    \* copy_image_resolving_stub
    copy_src,        \* the source file
    copy_io,         \* what the copy, the fetch and the write of this call do
    copy_out,        \* the result, the content of dst, the operations attempted
    kpc

varsInfer == <<frame_keys, series, series_i, clips_written, ipc>>

varsClip == <<clip_case, clip_doc, clips_out, cpc>>

varsInput == <<argv_len, has_import, has_native, native, doc_cases>>

varsRun == <<varsInput, fs, dirs, pc, exit_code, run_no, native_by_prefix,
             atlas_groups, loop_i, auto_collected, fs_first, fs0, dirs0>>

varsSize == <<img, img_bytes, size_out, spc>>

varsTex == <<tex_case, target_image, tpc>>

varsCopy == <<copy_src, copy_io, copy_out, kpc>>

varsUnit == <<varsSize, varsTex, varsCopy>>

vars == <<varsInfer, varsClip, varsRun, varsUnit>>

-----------------------------------------------------------------------------
(* Bounds of the model *)

MaxFrames == 5

MaxIdx == 3

-----------------------------------------------------------------------------
(* Python values *)

None == [k |-> "null", v |-> 0]
PyStr(s) == [k |-> "str", v |-> s]
PyInt(n) == [k |-> "int", v |-> n]

\* a / b for two floats holding whole numbers, kept exact
FloatDiv(a, b) == [num |-> a, den |-> b]

Digit == {"0", "1", "2", "3", "4", "5", "6", "7", "8", "9"}

DigitVal(c) ==
    CASE c = "0" -> 0 [] c = "1" -> 1 [] c = "2" -> 2 [] c = "3" -> 3
      [] c = "4" -> 4 [] c = "5" -> 5 [] c = "6" -> 6 [] c = "7" -> 7
      [] c = "8" -> 8 [] c = "9" -> 9

RECURSIVE ParseInt(_)
ParseInt(s) ==
    IF s = <<>> THEN 0
    ELSE 10 * ParseInt(SubSeq(s, 1, Len(s) - 1)) + DigitVal(s[Len(s)])

DigitSeq == <<"0", "1", "2", "3", "4", "5", "6", "7", "8", "9">>

RECURSIVE ToStr(_)
\* str(n) of an int n >= 0
ToStr(n) ==
    IF n < 10 THEN << DigitSeq[n + 1] >>
    ELSE Append(ToStr(n \div 10), DigitSeq[(n % 10) + 1])

IsDigits(s) == \A i \in 1..Len(s) : s[i] \in Digit

Whitespace == {" "}

RECURSIVE RStripChars(_, _)
RStripChars(s, chars) ==
    IF s # <<>> /\ s[Len(s)] \in chars
    THEN RStripChars(SubSeq(s, 1, Len(s) - 1), chars)
    ELSE s

RECURSIVE LStripChars(_, _)
LStripChars(s, chars) ==
    IF s # <<>> /\ s[1] \in chars THEN LStripChars(Tail(s), chars) ELSE s

Strip(s) == RStripChars(LStripChars(s, Whitespace), Whitespace)

-----------------------------------------------------------------------------
(* split_name_series: base + optional separator + 1..4 digits at the end *)

SeparatorChars == {"_", "-"} \cup Whitespace

\* t matches (?:[_\-\s]?)(\d{1,4})$
TailMatches(t) ==
    \/ Len(t) \in 1..4 /\ IsDigits(t)
    \/ Len(t) \in 2..5 /\ t[1] \in SeparatorChars /\ IsDigits(Tail(t))

\* the lazy group (.*?) takes the shortest prefix after which the rest matches
HasSeries(nm) == \E b \in 0..Len(nm) : TailMatches(SubSeq(nm, b + 1, Len(nm)))

LazyBaseLen(nm) ==
    CHOOSE b \in 0..Len(nm) :
        /\ TailMatches(SubSeq(nm, b + 1, Len(nm)))
        /\ \A c \in 0..(b - 1) : ~TailMatches(SubSeq(nm, c + 1, Len(nm)))

split_name_series(nm) ==
    IF ~HasSeries(nm) THEN None
    ELSE LET b    == LazyBaseLen(nm)
             t    == SubSeq(nm, b + 1, Len(nm))
             digs == IF t[1] \in SeparatorChars THEN Tail(t) ELSE t
             base == RStripChars(Strip(SubSeq(nm, 1, b)), {"_", "-", ".", " "})
         IN  IF base = <<>> THEN None
             ELSE [k |-> "pair", v |-> [base |-> base, idx |-> ParseInt(digs)]]

-----------------------------------------------------------------------------
(* The series dict of one atlas group *)

RECURSIVE SeriesPos(_, _)
\* position of base among the keys of the series dict ser, 0 when absent
SeriesPos(ser, base) ==
    IF ser = <<>> THEN 0
    ELSE IF ser[Len(ser)].base = base THEN Len(ser)
    ELSE SeriesPos(SubSeq(ser, 1, Len(ser) - 1), base)

\* series.setdefault(base, []).append((idx, name))
SeriesAdd(ser, base, idx, name) ==
    LET p == SeriesPos(ser, base)
        e == [idx |-> idx, name |-> name]
    IN  IF p = 0 THEN Append(ser, [base |-> base, lst |-> <<e>>])
        ELSE [ser EXCEPT ![p].lst = Append(@, e)]

RECURSIVE BuildSeriesOf(_)
BuildSeriesOf(keys) ==
    IF keys = <<>> THEN <<>>
    ELSE LET ser == BuildSeriesOf(SubSeq(keys, 1, Len(keys) - 1))
             nm  == keys[Len(keys)]
             sp  == split_name_series(nm)
         IN  IF sp = None THEN ser
             ELSE SeriesAdd(ser, sp.v.base, sp.v.idx, nm)

RECURSIVE InsertByIdx(_, _)
\* e placed after every element whose idx is <= e.idx (the sort is stable)
InsertByIdx(sorted, e) ==
    IF sorted = <<>> THEN <<e>>
    ELSE IF sorted[Len(sorted)].idx <= e.idx THEN Append(sorted, e)
    ELSE Append(InsertByIdx(SubSeq(sorted, 1, Len(sorted) - 1), e),
                sorted[Len(sorted)])

RECURSIVE SortByIdxStable(_)
SortByIdxStable(lst) ==
    IF lst = <<>> THEN <<>>
    ELSE InsertByIdx(SortByIdxStable(SubSeq(lst, 1, Len(lst) - 1)), lst[Len(lst)])

\* a sort that was left out
SortByIdx_Unsorted(lst) == lst

\* lst.sort(key=lambda t: t[0])
SortByIdx(lst) == SortByIdxStable(lst)

Max(a, b) == IF a >= b THEN a ELSE b

RECURSIVE ConsecutiveUpTo(_, _)
\* the value of `consecutive` after the loop has run for i = 1 .. n
\* (0-based indices of lst, i.e. elements n and n+1 of the TLA+ sequence)
ConsecutiveUpTo(lst, n) ==
    IF n = 0 THEN 1
    ELSE LET c == ConsecutiveUpTo(lst, n - 1)
         IN  IF lst[n + 1].idx = lst[n].idx + 1 THEN c + 1 ELSE Max(c, 1)

Consecutive(lst) == ConsecutiveUpTo(lst, Len(lst) - 1)

default_fps == 24

MinSeriesLen == 3

MinConsecutive == 3

FramesOut(lst) ==
    [i \in 1..Len(lst) |->
        [time |-> FloatDiv(i - 1, default_fps), frame_name |-> lst[i].name]]

GuessedClip(base, lst, comp_uuid) ==
    [name     |-> base,
     duration |-> FloatDiv(Len(lst), default_fps),
     sample   |-> default_fps,
     tracks   |-> << [type |-> "spriteFrame", frames |-> FramesOut(lst)] >>,
     source_atlas_uuid |-> comp_uuid,
     source   |-> "guessed"]

\* the body of `for base, lst in series.items()`: the clips it emits (0 or 1)
InferOne(base, lst0, comp_uuid) ==
    LET lst == SortByIdx(lst0)
    IN  IF Len(lst) < MinSeriesLen THEN <<>>
        ELSE IF Consecutive(lst) < MinConsecutive THEN <<>>
        ELSE << GuessedClip(base, lst, comp_uuid) >>

-----------------------------------------------------------------------------
(* Frame names the inference is run on *)

NamePool ==
    { <<"g", "_", "0", "1">>, <<"g", "_", "0", "2">>, <<"g", "_", "0", "3">>,
      <<"g", "_", "0", "5">>, <<"g", "_", "0", "6">>, <<"g", "2">>,
      <<"s", "1">>, <<"-", "7">> }

Range(f) == { f[i] : i \in DOMAIN f }

RECURSIVE DistinctSeqs(_, _)
\* the sequences without repetition of at most n elements of S
DistinctSeqs(S, n) ==
    IF n = 0 THEN {<<>>}
    ELSE LET shorter == DistinctSeqs(S, n - 1)
         IN  shorter \cup
             UNION { { Append(q, e) : e \in S \ Range(q) } :
                     q \in { r \in shorter : Len(r) = n - 1 } }

KeyLists == DistinctSeqs(NamePool, MaxFrames)

InferUuid == <<"a", "b">>

IdleInfer ==
    /\ frame_keys = <<>>
    /\ series = <<>>
    /\ series_i = 0
    /\ clips_written = <<>>
    /\ ipc = "idle"

IdleClip ==
    /\ clip_case = <<>>
    /\ clip_doc = [k |-> "null", v |-> 0]
    /\ clips_out = <<>>
    /\ cpc = "idle"

IdleRun ==
    /\ argv_len = 0
    /\ has_import = FALSE
    /\ has_native = FALSE
    /\ native = <<>>
    /\ doc_cases = <<>>
    /\ fs = <<>>
    /\ dirs = {}
    /\ pc = "idle"
    /\ exit_code = -1
    /\ run_no = 0
    /\ native_by_prefix = <<>>
    /\ atlas_groups = <<>>
    /\ loop_i = 0
    /\ auto_collected = <<>>
    /\ fs_first = <<>>
    /\ fs0 = <<>>
    /\ dirs0 = {}

IdleSize ==
    /\ img = <<>>
    /\ img_bytes = <<>>
    /\ size_out = [k |-> "null", v |-> 0]
    /\ spc = "idle"

IdleTex ==
    /\ tex_case = <<>>
    /\ target_image = <<>>
    /\ tpc = "idle"

IdleCopy ==
    /\ copy_src = <<>>
    /\ copy_io = <<>>
    /\ copy_out = <<>>
    /\ kpc = "idle"

IdleUnit == IdleSize /\ IdleTex /\ IdleCopy

InitInfer ==
    /\ IdleClip
    /\ IdleRun
    /\ IdleUnit
    /\ frame_keys \in KeyLists
    /\ series = <<>>
    /\ series_i = 0
    /\ clips_written = <<>>
    /\ ipc = "series"

\* lines 632-638: build the series dict of the group
BuildSeries ==
    /\ ipc = "series"
    /\ series' = BuildSeriesOf(frame_keys)
    /\ series_i' = 1
    /\ ipc' = "bases"
    /\ UNCHANGED <<frame_keys, clips_written, varsClip, varsRun, varsUnit>>

\* lines 640-675: one iteration of the loop over series.items()
InferBase ==
    /\ ipc = "bases"
    /\ series_i <= Len(series)
    /\ clips_written' =
           clips_written \o InferOne(series[series_i].base, series[series_i].lst, InferUuid)
    /\ series' = [series EXCEPT ![series_i].lst = SortByIdx(@)]
    /\ series_i' = series_i + 1
    /\ UNCHANGED <<frame_keys, ipc, varsClip, varsRun, varsUnit>>

\* lines 677-679: the index is written once the loop is over
WriteAutoIndex ==
    /\ ipc = "bases"
    /\ series_i > Len(series)
    /\ ipc' = "done"
    /\ UNCHANGED <<frame_keys, series, series_i, clips_written, varsClip, varsRun, varsUnit>>

NextInfer == BuildSeries \/ InferBase \/ WriteAutoIndex

SpecInfer == InitInfer /\ [][NextInfer]_vars

-----------------------------------------------------------------------------
(* Sequence inference: properties *)

\* the names of frame_keys that split to the given base
MembersOf(base) ==
    { nm \in Range(frame_keys) :
        split_name_series(nm) # None /\ split_name_series(nm).v.base = base }

SuffixOf(nm) == split_name_series(nm).v.idx

BasesSeen ==
    { split_name_series(nm).v.base :
        nm \in { n \in Range(frame_keys) : split_name_series(n) # None } }

ClipsNamed(base) ==
    { j \in 1..Len(clips_written) : clips_written[j].name = base }

RECURSIVE RunEndingAt(_, _)
\* length of the unbroken run of +1 steps that ends at position i of lst
RunEndingAt(lst, i) ==
    IF i > 1 /\ lst[i].idx = lst[i - 1].idx + 1
    THEN RunEndingAt(lst, i - 1) + 1
    ELSE 1

LongestRun(lst) ==
    IF lst = <<>> THEN 0
    ELSE CHOOSE m \in 1..Len(lst) :
            /\ \E i \in 1..Len(lst) : RunEndingAt(lst, i) = m
            /\ \A i \in 1..Len(lst) : RunEndingAt(lst, i) <= m

\* C1: once the inference of a group is over, a base group whose longest run
\* of strictly consecutive suffix values (each = previous + 1, unbroken) is
\* shorter than 3 has produced no inferred clip.
C1_ShortRunDiscarded ==
    ipc = "done" =>
        \A i \in 1..Len(series) :
            LongestRun(SortByIdxStable(series[i].lst)) < 3
                => ClipsNamed(series[i].base) = {}

\* C2: once the inference of a group is over, every base with fewer than 3
\* members has no clip, and every base that has a clip has exactly one, with
\* one track holding exactly one keyframe per member of the group, ordered by
\* numeric suffix ascending, keyframe i (from 0) at time i/24, and with
\* duration = memberCount/24.
C2_ClipHoldsAllMembers ==
    ipc = "done" =>
        \A base \in BasesSeen :
            LET members == MembersOf(base)
                n       == Cardinality(members)
            IN  /\ n < 3 => ClipsNamed(base) = {}
                /\ Cardinality(ClipsNamed(base)) <= 1
                /\ \A j \in ClipsNamed(base) :
                      LET c  == clips_written[j]
                          fr == c.tracks[1].frames
                      IN  /\ Len(c.tracks) = 1
                          /\ Len(fr) = n
                          /\ { fr[q].frame_name : q \in 1..Len(fr) } = members
                          /\ \A q \in 1..Len(fr) :
                                fr[q].time = [num |-> q - 1, den |-> 24]
                          /\ \A q \in 2..Len(fr) :
                                SuffixOf(fr[q - 1].frame_name) <= SuffixOf(fr[q].frame_name)
                          /\ c.duration = [num |-> n, den |-> 24]

\* a group of four members, one of them outside the consecutive run, has its
\* clip, while a group of fewer than three members beside it has none
C2_Witness ==
    /\ ipc = "done"
    /\ \E j \in 1..Len(clips_written) :
          LET fr == clips_written[j].tracks[1].frames
          IN  /\ Len(fr) = 4
              /\ SuffixOf(fr[4].frame_name) > SuffixOf(fr[3].frame_name) + 1
    /\ \E base \in BasesSeen :
          Cardinality(MembersOf(base)) < 3 /\ ClipsNamed(base) = {}

-----------------------------------------------------------------------------
(* Documents: parsed JSON, as Python values *)

PyBool(b) == [k |-> "bool", v |-> b]
PyFloat(n, d) == [k |-> "float", v |-> [num |-> n, den |-> d]]
PyList(q) == [k |-> "list", v |-> q]
\* a dict is the list of its items [key, val], in insertion order
PyDict(q) == [k |-> "dict", v |-> q]

IsList(x) == x.k = "list"
IsDict(x) == x.k = "dict"
IsStr(x) == x.k = "str"
\* isinstance(x, (int, float)); bool is a subclass of int
IsNumber(x) == x.k \in {"int", "float", "bool"}
\* isinstance(x, int)
IsIntInstance(x) == x.k \in {"int", "bool"}

IntValue(x) == IF x.k = "bool" THEN (IF x.v THEN 1 ELSE 0) ELSE x.v

\* float(x) of a number
ToFloat(x) == IF x.k = "float" THEN x ELSE PyFloat(IntValue(x), 1)

\* x == n for an int literal n
EqualsInt(x, n) ==
    /\ IsNumber(x)
    /\ IF x.k = "float" THEN x.v.num = n * x.v.den ELSE IntValue(x) = n

\* x == s for a str literal s
EqualsStr(x, s) == IsStr(x) /\ x.v = s

DictHas(d, key) == \E i \in 1..Len(d.v) : d.v[i].key = key

DictGet(d, key, default) ==
    IF DictHas(d, key)
    THEN d.v[CHOOSE i \in 1..Len(d.v) : d.v[i].key = key].val
    ELSE default

S_spriteFrame == <<"s", "p", "r", "i", "t", "e", "F", "r", "a", "m", "e">>
S_value == <<"v", "a", "l", "u", "e">>
S_frame == <<"f", "r", "a", "m", "e">>

-----------------------------------------------------------------------------
(* parse_animation_clip *)

\* uuids, lines 247-249
IdentifierTable(data) ==
    IF IsList(data) /\ Len(data.v) > 1 /\ IsList(data.v[2])
    THEN SelectSeq(data.v[2].v, IsStr)
    ELSE <<>>

\* a lookup that leaves out the test 0 <= idx: a negative index counts from
\* the end of the list, and raises IndexError beyond its start
ResolveUuid_NoLowerBound(uuids, idx) ==
    IF idx # None /\ IntValue(idx) < Len(uuids)
    THEN IF IntValue(idx) >= 0 THEN uuids[IntValue(idx) + 1]
         ELSE IF -IntValue(idx) <= Len(uuids) THEN uuids[Len(uuids) + IntValue(idx) + 1]
         ELSE [k |-> "raise", v |-> "IndexError"]
    ELSE None

\* line 286
ResolveUuid(uuids, idx) ==
    IF idx # None /\ 0 <= IntValue(idx) /\ IntValue(idx) < Len(uuids)
    THEN uuids[IntValue(idx) + 1]
    ELSE None

\* lines 253-259
IsClipHeader(node) ==
    /\ Len(node.v) >= 3
    /\ IsNumber(node.v[1])
    /\ IsStr(node.v[2])
    /\ IsNumber(node.v[3])
    /\ (Len(node.v) < 4 \/ IsNumber(node.v[4]))

\* lines 260-265
NewClip(node) ==
    [name     |-> node.v[2].v,
     duration |-> ToFloat(node.v[3]),
     sample   |-> IF Len(node.v) > 3 /\ IsNumber(node.v[4])
                  THEN ToFloat(node.v[4]) ELSE None,
     tracks   |-> <<>>]

\* line 268
HasSpriteFrameMarker(node) ==
    \E i \in 1..Len(node.v) : EqualsStr(node.v[i], S_spriteFrame)

\* lines 273-279
IsKeyframeRecord(entry) ==
    /\ IsList(entry)
    /\ Len(entry.v) >= 4
    /\ IsDict(entry.v[1])
    /\ DictHas(entry.v[1], S_frame)
    /\ \E i \in 1..Len(entry.v) : EqualsStr(entry.v[i], S_value)

\* lines 281-285: the element after the first 6 that an int follows
KeyframeIndex(entry) ==
    LET hits == { p \in 2..(Len(entry.v) - 1) :
                    EqualsInt(entry.v[p], 6) /\ IsIntInstance(entry.v[p + 1]) }
    IN  IF hits = {} THEN None
        ELSE entry.v[(CHOOSE p \in hits : \A q \in hits : p <= q) + 1]

\* lines 280-287
KeyframeOf(entry, uuids) ==
    LET f   == DictGet(entry.v[1], S_frame, None)
        idx == KeyframeIndex(entry)
    IN  [time       |-> IF IsNumber(f) THEN ToFloat(f) ELSE None,
         uuid       |-> ResolveUuid(uuids, idx),
         uuid_index |-> idx]

RECURSIVE collect_frames(_, _)
RECURSIVE CollectNested(_, _, _)

\* lines 288-289: frames.extend(collect_frames(entry)) for entries i..
CollectNested(q, i, uuids) ==
    IF i > Len(q) THEN <<>>
    ELSE collect_frames(q[i], uuids) \o CollectNested(q, i + 1, uuids)

RECURSIVE DirectFrames(_, _, _)
\* lines 272-287: the records among the entries i.. of n
DirectFrames(q, i, uuids) ==
    IF i > Len(q) THEN <<>>
    ELSE (IF IsKeyframeRecord(q[i]) THEN << KeyframeOf(q[i], uuids) >> ELSE <<>>)
         \o DirectFrames(q, i + 1, uuids)

collect_frames(n, uuids) ==
    IF ~IsList(n) THEN <<>>
    ELSE DirectFrames(n.v, 1, uuids) \o CollectNested(n.v, 1, uuids)

RECURSIVE find_clips(_, _, _, _)
RECURSIVE FindClipsIn(_, _, _, _, _)

\* lines 296-297; current is the position of the open clip in clips, 0 for None
FindClipsIn(children, i, current, clips, uuids) ==
    IF i > Len(children) THEN clips
    ELSE FindClipsIn(children, i + 1, current,
                     find_clips(children[i], current, clips, uuids), uuids)

\* lines 251-297: the clips list after find_clips(node, current)
find_clips(node, current, clips, uuids) ==
    IF ~IsList(node) THEN clips
    ELSE LET hdr    == IsClipHeader(node)
             clips1 == IF hdr THEN Append(clips, NewClip(node)) ELSE clips
             cur1   == IF hdr THEN Len(clips1) ELSE current
             marked == HasSpriteFrameMarker(node)
             frames == IF marked THEN collect_frames(node, uuids) ELSE <<>>
             clips2 == IF marked /\ cur1 # 0 /\ frames # <<>>
                       THEN [clips1 EXCEPT ![cur1].tracks =
                                Append(@, [type |-> "spriteFrame", frames |-> frames])]
                       ELSE clips1
         IN  FindClipsIn(node.v, 1, cur1, clips2, uuids)

parse_animation_clip(data) == find_clips(data, 0, <<>>, IdentifierTable(data))

-----------------------------------------------------------------------------
(* Documents parse_animation_clip is run on: one clip header, one sequence *)
(* marked "spriteFrame" below it, one keyframe record in that sequence     *)

S_run == <<"r", "u", "n">>
S_tex_a == <<"t", "e", "x", "_", "a">>
S_tex_b == <<"t", "e", "x", "_", "b">>
S_c == <<"c">>

ClipTables ==
    { << PyStr(S_tex_a) >>,
      << PyStr(S_tex_a), PyStr(S_tex_b) >>,
      << PyStr(S_tex_a), PyInt(7), PyStr(S_tex_b) >> }

\* how a node sits in the sequence that holds it: as an element, as the only
\* element of a sequence of its own, or as a value of a map
Places == {"element", "seq", "map"}

Under(place, node) ==
    CASE place = "element" -> node
      [] place = "seq"     -> PyList(<< node >>)
      [] place = "map"     -> PyDict(<< [key |-> S_c, val |-> node] >>)

KeyframeRecord(idx) ==
    PyList(<< PyDict(<< [key |-> S_frame, val |-> PyInt(0)] >>),
              PyStr(S_value), PyInt(6), PyInt(idx) >>)

ClipHeaderWith(dur, rest) ==
    PyList(<< PyInt(0), PyStr(S_run), dur, PyInt(24) >> \o rest)

\* mp = "inline": the header itself carries the marker
ClipDocOf(c) ==
    LET rec    == Under(c.rp, KeyframeRecord(c.idx))
        marked == PyList(<< PyStr(S_spriteFrame), rec >>)
        header == IF c.mp = "inline"
                  THEN ClipHeaderWith(c.dur, << PyStr(S_spriteFrame), rec >>)
                  ELSE ClipHeaderWith(c.dur, << Under(c.mp, marked) >>)
    IN  PyList(<< PyInt(1), PyList(c.table), Under(c.hp, header) >>)

ClipCases ==
    [table : ClipTables,
     idx   : (0 - MaxIdx)..MaxIdx,
     dur   : {PyFloat(3, 2), PyInt(2)},
     hp    : Places,
     mp    : Places \cup {"inline"},
     rp    : Places]

InitClip ==
    /\ IdleUnit
    /\ IdleInfer
    /\ IdleRun
    /\ clip_case \in ClipCases
    /\ clip_doc = ClipDocOf(clip_case)
    /\ clips_out = <<>>
    /\ cpc = "call"

\* lines 245-300
ParseClip ==
    /\ cpc = "call"
    /\ clips_out' = parse_animation_clip(clip_doc)
    /\ cpc' = "returned"
    /\ UNCHANGED <<clip_case, clip_doc, varsInfer, varsRun, varsUnit>>

NextClip == ParseClip

SpecClip == InitClip /\ [][NextClip]_vars

-----------------------------------------------------------------------------
(* parse_animation_clip: properties *)

RECURSIVE Flatten(_)
Flatten(qq) == IF qq = <<>> THEN <<>> ELSE Head(qq) \o Flatten(Tail(qq))

\* every keyframe of every track of every returned clip
AllKeyframes ==
    Flatten([i \in 1..Len(clips_out) |->
        Flatten([j \in 1..Len(clips_out[i].tracks) |-> clips_out[i].tracks[j].frames])])

\* the header, the marked sequence and the record are reached from the root
\* through sequences only
SequencesOnly(c) == c.hp # "map" /\ c.mp # "map" /\ c.rp # "map"

StringsOnly(table) == \A i \in 1..Len(table) : IsStr(table[i])

\* C5: a keyframe record whose index is below 0 or not below the length N of
\* the identifier table is recorded like any other and resolves to none: no
\* raise, no wrap-around to an entry of the table.
C5_OutOfRangeIsNone ==
    cpc = "returned" =>
        LET N == Len(SelectSeq(clip_case.table, IsStr))
        IN  /\ \A q \in 1..Len(AllKeyframes) :
                  LET f == AllKeyframes[q]
                  IN  (f.uuid_index.k = "int" /\ (f.uuid_index.v < 0 \/ f.uuid_index.v >= N))
                          => f.uuid = None
            /\ (SequencesOnly(clip_case) /\ (clip_case.idx < 0 \/ clip_case.idx >= N))
                  => /\ Len(AllKeyframes) = 1
                     /\ AllKeyframes[1].uuid_index = PyInt(clip_case.idx)
                     /\ AllKeyframes[1].uuid = None

\* an index of -1 and an index of N have both been recorded as none
C5_Witness ==
    /\ cpc = "returned"
    /\ clip_case.idx = -1
    /\ Len(clip_case.table) = 2
    /\ Len(AllKeyframes) = 1
    /\ AllKeyframes[1].uuid = None
    /\ AllKeyframes[1].uuid_index = PyInt(-1)

\* C6: a document with exactly one clip header [k, name, duration, sampleRate],
\* one spriteFrame-marked sequence nested under it and one keyframe record in
\* that sequence referring to index i of the table T, 0 <= i < len(T), yields
\* exactly one clip with that name, duration and sample rate, with exactly one
\* track, whose single keyframe resolves to T[i].
C6_OneClipOneTrack ==
    (/\ cpc = "returned"
     /\ StringsOnly(clip_case.table)
     /\ clip_case.idx >= 0
     /\ clip_case.idx < Len(clip_case.table))
    => /\ Len(clips_out) = 1
       /\ clips_out[1].name = S_run
       /\ clips_out[1].duration = ToFloat(clip_case.dur)
       /\ clips_out[1].sample = PyFloat(24, 1)
       /\ Len(clips_out[1].tracks) = 1
       /\ Len(clips_out[1].tracks[1].frames) = 1
       /\ clips_out[1].tracks[1].frames[1].uuid = clip_case.table[clip_case.idx + 1]

\* the same, for documents in which no map lies between the root and the record
C6_SequencesOnly ==
    SequencesOnly(clip_case) => C6_OneClipOneTrack

-----------------------------------------------------------------------------
(* Strings and paths *)

LowerSeq == <<"a", "b", "c", "d", "e", "f", "g", "h", "i", "j", "k", "l", "m", "n", "o", "p", "q", "r", "s", "t", "u", "v", "w", "x", "y", "z">>
UpperSeq == <<"A", "B", "C", "D", "E", "F", "G", "H", "I", "J", "K", "L", "M", "N", "O", "P", "Q", "R", "S", "T", "U", "V", "W", "X", "Y", "Z">>

Lower == Range(LowerSeq)
Upper == Range(UpperSeq)

\* str.lower(), one character
LowerChar(c) ==
    IF c \in Upper THEN LowerSeq[CHOOSE i \in 1..Len(UpperSeq) : UpperSeq[i] = c] ELSE c

LowerStr(s) == [i \in 1..Len(s) |-> LowerChar(s[i])]

\* re.sub(r"[^a-zA-Z0-9._-]", "_", str(s))
safe_slug(s) ==
    [i \in 1..Len(s) |->
        IF s[i] \in Lower \cup Upper \cup Digit \cup {".", "_", "-"} THEN s[i] ELSE "_"]

EndsWith(s, suf) ==
    Len(s) >= Len(suf) /\ SubSeq(s, Len(s) - Len(suf) + 1, Len(s)) = suf

\* f.lower().endswith(exts)
HasExt(f, exts) == \E e \in exts : EndsWith(LowerStr(f), e)

\* s[:n]
Prefix(s, n) == SubSeq(s, 1, IF n < Len(s) THEN n ELSE Len(s))

\* the last position of character c in s, 0 when absent
LastIndexOf(s, c) ==
    IF \E i \in 1..Len(s) : s[i] = c
    THEN CHOOSE i \in 1..Len(s) : s[i] = c /\ \A j \in (i + 1)..Len(s) : s[j] # c
    ELSE 0

Join(a, b) == a \o <<"/">> \o b

Basename(path) == SubSeq(path, LastIndexOf(path, "/") + 1, Len(path))

\* the first segment of a relative path
FirstSegment(rel) ==
    IF \E i \in 1..Len(rel) : rel[i] = "/"
    THEN SubSeq(rel, 1, (CHOOSE i \in 1..Len(rel) :
                            rel[i] = "/" /\ \A j \in 1..(i - 1) : rel[j] # "/") - 1)
    ELSE rel

\* os.path.splitext: the extension starts at the last dot of the last segment,
\* unless only dots precede it there
SplitExtAt(path) ==
    LET sep == LastIndexOf(path, "/")
        dot == LastIndexOf(path, ".")
    IN  IF dot > sep /\ \E i \in (sep + 1)..(dot - 1) : path[i] # "."
        THEN dot ELSE Len(path) + 1

SplitExtRoot(path) == SubSeq(path, 1, SplitExtAt(path) - 1)
SplitExtExt(path) == SubSeq(path, SplitExtAt(path), Len(path))

S_out == <<"o", "u", "t">>
S_audio == <<"a", "u", "d", "i", "o">>
S_spine == <<"s", "p", "i", "n", "e">>
S_sprite_atlases == <<"s", "p", "r", "i", "t", "e", "_", "a", "t", "l", "a", "s", "e", "s">>
S_animations_auto == <<"a", "n", "i", "m", "a", "t", "i", "o", "n", "s", "_", "a", "u", "t", "o">>
S_index_json == <<"i", "n", "d", "e", "x", ".", "j", "s", "o", "n">>

Exists(files, path) == path \in DOMAIN files

\* open(path, "w") and shutil.copy2: the file at path now holds content
WriteFile(files, path, content) == (path :> content) @@ files

-----------------------------------------------------------------------------
(* extract_audio *)

AudioExts == { <<".", "m", "p", "3">>, <<".", "o", "g", "g">>, <<".", "w", "a", "v">>, <<".", "m", "4", "a">> }

\* lines 69-73: the first of name.ext, name_1.ext, name_2.ext, ... not in use
FreeAudioTarget(files, audio_out, name, ext) ==
    LET cand(i) == IF i = 0 THEN Join(audio_out, name \o ext)
                   ELSE Join(audio_out, name \o <<"_">> \o ToStr(i) \o ext)
        n == CHOOSE i \in 0..Cardinality(DOMAIN files) :
                /\ ~Exists(files, cand(i))
                /\ \A j \in 0..(i - 1) : Exists(files, cand(j))
    IN  cand(n)

\* a target that is taken as computed, in use or not
FirstAudioTarget(files, audio_out, name, ext) == Join(audio_out, name \o ext)

\* lines 66-73
AudioTarget(files, audio_out, name, ext) == FreeAudioTarget(files, audio_out, name, ext)

RECURSIVE AudioCopies(_, _, _)
\* lines 65-75: fs after the files 1..n of the walk have been handled
AudioCopies(files, nat, n) ==
    IF n = 0 THEN files
    ELSE LET before == AudioCopies(files, nat, n - 1)
             f      == nat[n]
             base   == Basename(f.rel)
         IN  IF ~HasExt(f.rel, AudioExts) THEN before
             ELSE WriteFile(before,
                            AudioTarget(before, Join(S_out, S_audio),
                                        safe_slug(SplitExtRoot(base)),
                                        LowerStr(SplitExtExt(base))),
                            f.data)

extract_audio(files, nat) == AudioCopies(files, nat, Len(nat))

-----------------------------------------------------------------------------
(* walk and the two extractors built on it *)

\* bool(x)
Truthy(x) ==
    CASE x.k = "null"  -> FALSE
      [] x.k = "bool"  -> x.v
      [] x.k = "int"   -> x.v # 0
      [] x.k = "float" -> x.v.num # 0
      [] OTHER         -> x.v # <<>>

RECURSIVE WalkNodes(_)
RECURSIVE WalkEach(_, _)

\* the nodes walk(node, visitor) hands to the visitor, in order
WalkNodes(node) ==
    IF IsList(node) \/ IsDict(node) THEN << node >> \o WalkEach(node, 1) ELSE <<>>

WalkEach(node, i) ==
    IF i > Len(node.v) THEN <<>>
    ELSE WalkNodes(IF IsList(node) THEN node.v[i] ELSE node.v[i].val)
         \o WalkEach(node, i + 1)

S_name == <<"n", "a", "m", "e">>
S_rect == <<"r", "e", "c", "t">>
S_offset == <<"o", "f", "f", "s", "e", "t">>
S_originalSize == <<"o", "r", "i", "g", "i", "n", "a", "l", "S", "i", "z", "e">>
S_rotated == <<"r", "o", "t", "a", "t", "e", "d">>

\* lines 370
IsSpriteFrame(node) ==
    /\ IsDict(node)
    /\ Truthy(DictGet(node, S_name, None))
    /\ Truthy(DictGet(node, S_rect, None))
    /\ Truthy(DictGet(node, S_originalSize, None))

\* lines 371-377
SpriteFrameOf(node) ==
    [name         |-> DictGet(node, S_name, None),
     rotated      |-> Truthy(DictGet(node, S_rotated, PyBool(FALSE))),
     rect         |-> DictGet(node, S_rect, None),
     offset       |-> DictGet(node, S_offset, PyList(<< PyInt(0), PyInt(0) >>)),
     originalSize |-> DictGet(node, S_originalSize, None)]

extract_sprite_frames(json_data) ==
    LET hits == SelectSeq(WalkNodes(json_data), IsSpriteFrame)
    IN  [i \in 1..Len(hits) |-> SpriteFrameOf(hits[i])]

\* lines 346-355
IsSkeletonEntry(node) ==
    /\ IsList(node)
    /\ Len(node.v) >= 6
    /\ EqualsInt(node.v[1], 0)
    /\ IsStr(node.v[2])
    /\ IsStr(node.v[3])
    /\ IsList(node.v[4])
    /\ IsDict(node.v[5])
    /\ IsList(node.v[6])

\* lines 356-362
SkeletonEntryOf(node) ==
    [name           |-> node.v[2],
     atlasText      |-> node.v[3],
     skeletonJson   |-> node.v[5],
     textureNames   |-> node.v[4],
     textureIndices |-> node.v[6]]

extract_skeleton_entries(json_data) ==
    LET hits == SelectSeq(WalkNodes(json_data), IsSkeletonEntry)
    IN  [i \in 1..Len(hits) |-> SkeletonEntryOf(hits[i])]

\* a guess that takes the last string of the table
guess_texture_uuid_last(json_data) ==
    IF /\ IsList(json_data) /\ Len(json_data.v) > 1 /\ IsList(json_data.v[2])
       /\ json_data.v[2].v # <<>> /\ IsStr(json_data.v[2].v[Len(json_data.v[2].v)])
    THEN json_data.v[2].v[Len(json_data.v[2].v)]
    ELSE None

guess_texture_uuid_compressed(json_data) ==
    IF /\ IsList(json_data) /\ Len(json_data.v) > 1 /\ IsList(json_data.v[2])
       /\ json_data.v[2].v # <<>> /\ IsStr(json_data.v[2].v[1])
    THEN json_data.v[2].v[1]
    ELSE None

-----------------------------------------------------------------------------
(* atlas_groups: a dict, kept as the list of its items in insertion order *)

RECURSIVE GroupPos(_, _)
\* position of the key in groups, 0 when absent
GroupPos(groups, key) ==
    IF groups = <<>> THEN 0
    ELSE IF groups[Len(groups)].key = key THEN Len(groups)
    ELSE GroupPos(SubSeq(groups, 1, Len(groups) - 1), key)

\* atlas_groups.setdefault(key, {"frames": {}, "sources": set()})
GroupsWith(groups, key) ==
    IF GroupPos(groups, key) # 0 THEN groups
    ELSE Append(groups, [key |-> key, frames |-> <<>>, sources |-> {}])

HasFrame(frames, name) == \E i \in 1..Len(frames) : frames[i].name = name

\* a dict store without the membership test: the last record of a name stays,
\* at the position of the first
PutFrameLast(frames, fr) ==
    IF HasFrame(frames, fr.name)
    THEN [i \in 1..Len(frames) |-> IF frames[i].name = fr.name THEN fr ELSE frames[i]]
    ELSE Append(frames, fr)

\* lines 547-549
PutFrame(frames, fr) ==
    IF HasFrame(frames, fr.name) THEN frames ELSE Append(frames, fr)

RECURSIVE PutFrames(_, _, _)
\* lines 546-549 for the frames 1..n of the document
PutFrames(frames, new, n) ==
    IF n = 0 THEN frames ELSE PutFrame(PutFrames(frames, new, n - 1), new[n])

\* a grouping keyed by the first six characters of the reference
GroupKey_Prefix(tex_uuid_comp) == Prefix(tex_uuid_comp, 6)

\* line 544: the key of the group is the reference itself
GroupKey(tex_uuid_comp) == tex_uuid_comp

\* line 548: a frame name that is a list or a map cannot be a dict key
CollectRaises(json_data) ==
    /\ Truthy(guess_texture_uuid_compressed(json_data))
    /\ \E i \in 1..Len(extract_sprite_frames(json_data)) :
          extract_sprite_frames(json_data)[i].name.k \in {"list", "dict"}

\* lines 541-549
CollectFrames(groups, json_data, jf_base) ==
    LET tex_uuid_comp == guess_texture_uuid_compressed(json_data)
        frames        == extract_sprite_frames(json_data)
    IN  IF Truthy(tex_uuid_comp) /\ frames # <<>>
        THEN LET key == GroupKey(tex_uuid_comp.v)
                 g1  == GroupsWith(groups, key)
                 p   == GroupPos(g1, key)
             IN  [g1 EXCEPT ![p].sources = @ \cup {jf_base},
                            ![p].frames  = PutFrames(@, frames, Len(frames))]
        ELSE groups

-----------------------------------------------------------------------------
(* Directories and files below output_dir *)

\* the path and the directories above it
Ancestors(path) ==
    { SubSeq(path, 1, i - 1) : i \in { j \in 1..Len(path) : path[j] = "/" } } \cup {path}

\* os.makedirs(path, exist_ok=True)
ensure_dir(ds, path) == ds \cup Ancestors(path)

\* os.listdir(d): the names of the files directly in d
ListDir(files, d) == { Basename(p) : p \in { q \in DOMAIN files : q = Join(d, Basename(q)) } }

\* os.remove(path)
RemoveFiles(files, paths) == [p \in (DOMAIN files) \ paths |-> files[p]]

\* index of the first element of seq that satisfies P, 0 when there is none
FirstWhere(seq, P(_)) ==
    IF \E i \in 1..Len(seq) : P(seq[i])
    THEN CHOOSE i \in 1..Len(seq) : P(seq[i]) /\ \A j \in 1..(i - 1) : ~P(seq[j])
    ELSE 0

-----------------------------------------------------------------------------
(* native_by_prefix: a dict, kept as the list of its items in insertion order *)

HexChars == Digit \cup {"a", "b", "c", "d", "e", "f", "A", "B", "C", "D", "E", "F"}

S_misc == <<"_", "_", "m", "i", "s", "c", "_", "_">>

ImageExtSeq == << <<".", "p", "n", "g">>, <<".", "w", "e", "b", "p">>, <<".", "j", "p", "g">>, <<".", "j", "p", "e", "g">> >>

ImageExts == Range(ImageExtSeq)

\* lines 477-485, bucket_tag being None
BucketOf(rel) ==
    LET first == FirstSegment(rel)
    IN  IF Len(first) = 2 /\ \A i \in 1..2 : first[i] \in HexChars
        THEN LowerStr(first) ELSE S_misc

RECURSIVE BucketPos(_, _)
BucketPos(nbp, prefix) ==
    IF nbp = <<>> THEN 0
    ELSE IF nbp[Len(nbp)].prefix = prefix THEN Len(nbp)
    ELSE BucketPos(SubSeq(nbp, 1, Len(nbp) - 1), prefix)

\* native_by_prefix.setdefault(prefix, []).append(f)
BucketAdd(nbp, prefix, f) ==
    LET p == BucketPos(nbp, prefix)
    IN  IF p = 0 THEN Append(nbp, [prefix |-> prefix, files |-> <<f>>])
        ELSE [nbp EXCEPT ![p].files = Append(@, f)]

RECURSIVE IndexImages(_, _)
\* lines 474-486 for the files 1..n of the walk
IndexImages(nat, n) ==
    IF n = 0 THEN <<>>
    ELSE LET before == IndexImages(nat, n - 1)
             f      == nat[n]
         IN  IF ~HasExt(Basename(f.rel), ImageExts) THEN before
             ELSE BucketAdd(before, BucketOf(f.rel), f)

\* native_by_prefix.get(prefix, [])
Candidates(nbp, prefix) ==
    IF BucketPos(nbp, prefix) = 0 THEN <<>> ELSE nbp[BucketPos(nbp, prefix)].files

-----------------------------------------------------------------------------
RECURSIVE SkipWhile(_, _, _)
\* the first position from i on whose character is not in chars
SkipWhile(s, i, chars) ==
    IF i <= Len(s) /\ s[i] \in chars THEN SkipWhile(s, i + 1, chars) ELSE i

(* Bytes.  The content of a native file is a record [kind |-> "bytes", v],
   v the sequence of its bytes; text is held as its ASCII codes. *)

Min(a, b) == IF a <= b THEN a ELSE b

\* buf[a:b], 0 <= a <= b: what lies past the end is left out
Slice(buf, a, b) == SubSeq(buf, a + 1, Min(b, Len(buf)))

RECURSIVE FromBig(_)
\* int.from_bytes(q, "big")
FromBig(q) ==
    IF q = <<>> THEN 0 ELSE 256 * FromBig(SubSeq(q, 1, Len(q) - 1)) + q[Len(q)]

RECURSIVE FromLittle(_)
\* int.from_bytes(q, "little")
FromLittle(q) ==
    IF q = <<>> THEN 0 ELSE q[1] + 256 * FromLittle(Tail(q))

RECURSIVE BitAnd(_, _)
\* a & b
BitAnd(a, b) ==
    IF a = 0 \/ b = 0 THEN 0
    ELSE 2 * BitAnd(a \div 2, b \div 2) + (IF a % 2 = 1 /\ b % 2 = 1 THEN 1 ELSE 0)

RECURSIVE BitOr(_, _)
\* a | b
BitOr(a, b) ==
    IF a = 0 THEN b
    ELSE IF b = 0 THEN a
    ELSE 2 * BitOr(a \div 2, b \div 2) + (IF a % 2 = 1 \/ b % 2 = 1 THEN 1 ELSE 0)

\* a << n and a >> n
ShiftLeft(a, n) == a * (2 ^ n)
ShiftRight(a, n) == a \div (2 ^ n)

\* bytes.decode(..., errors="ignore") of bytes that hold no multi-byte
\* sequence: the bytes that are not ASCII are dropped
DecodeIgnore(q) == SelectSeq(q, LAMBDA c : c < 128)

B_PNG == <<80, 78, 71>>
B_PNG_magic == <<137, 80, 78, 71, 13, 10, 26, 10>>
B_RIFF == <<82, 73, 70, 70>>
B_WEBP == <<87, 69, 66, 80>>
B_VP8X == <<86, 80, 56, 88>>
B_VP8_ == <<86, 80, 56, 32>>
B_VP8L == <<86, 80, 56, 76>>
B_No_Content == <<78, 111, 32, 67, 111, 110, 116, 101, 110, 116>>
B_http == <<104, 116, 116, 112>>
B_colon_slashes == <<58, 47, 47>>

\* the value the readers return: {"width": w, "height": h}
SizeOf(w, h) == [k |-> "size", v |-> [width |-> w, height |-> h]]

\* lines 80-92, data the bytes of the file
read_png_size(data) ==
    LET buf == Slice(data, 0, 32)
    IN  IF Len(buf) < 24 THEN None
        ELSE IF DecodeIgnore(Slice(buf, 1, 4)) # B_PNG THEN None
        ELSE SizeOf(FromBig(Slice(buf, 16, 20)), FromBig(Slice(buf, 20, 24)))

RECURSIVE JpegSegments(_, _)
\* lines 103-127: the loop, entered with off (0-based)
JpegSegments(data, off) ==
    IF ~(off + 3 < Len(data)) THEN None
    ELSE IF data[off + 1] # 255 THEN JpegSegments(data, off + 1)
    ELSE LET marker  == data[off + 2]
             seg_len == BitOr(ShiftLeft(data[off + 3], 8), data[off + 4])
         IN  IF marker \in {216, 217} THEN JpegSegments(data, off + 2)
             ELSE IF off + 4 > Len(data) THEN None
             ELSE IF seg_len < 2 \/ off + 2 + seg_len > Len(data) THEN None
             ELSE IF marker \in {192, 193, 194}
                  THEN IF seg_len >= 7
                       THEN SizeOf(BitOr(ShiftLeft(data[off + 8], 8), data[off + 9]),
                                   BitOr(ShiftLeft(data[off + 6], 8), data[off + 7]))
                       ELSE None
             ELSE JpegSegments(data, off + 2 + seg_len)

\* lines 94-129
read_jpeg_size(data) ==
    IF Len(data) < 4 \/ data[1] # 255 \/ data[2] # 216 THEN None
    ELSE JpegSegments(data, 2)

RECURSIVE WebpChunks(_, _)
\* lines 141-165: the loop, entered with off (0-based); an index past the end
\* of buf raises IndexError, which line 166 turns into None, while a slice
\* past the end is only shorter
WebpChunks(buf, off) ==
    IF ~(off + 8 <= Len(buf)) THEN None
    ELSE LET chunk      == Slice(buf, off, off + 4)
             size       == FromLittle(Slice(buf, off + 4, off + 8))
             data_start == off + 8
             sig_off    == data_start + 3
             next       == WebpChunks(buf, data_start + (size + 1) - ((size + 1) % 2))
         IN  IF chunk = B_VP8X
             THEN SizeOf(FromLittle(Slice(buf, data_start + 4, data_start + 7)) + 1,
                         FromLittle(Slice(buf, data_start + 7, data_start + 10)) + 1)
             ELSE IF chunk = B_VP8_ /\ size >= 10
             THEN IF Slice(buf, sig_off, sig_off + 3) = <<157, 1, 42>>
                  THEN SizeOf(BitAnd(FromLittle(Slice(buf, sig_off + 3, sig_off + 5)), 16383),
                              BitAnd(FromLittle(Slice(buf, sig_off + 5, sig_off + 7)), 16383))
                  ELSE next
             ELSE IF chunk = B_VP8L /\ size >= 5
             THEN IF data_start >= Len(buf) THEN None
                  ELSE IF buf[data_start + 1] = 47
                  THEN IF data_start + 4 >= Len(buf) THEN None
                       ELSE LET b1 == buf[data_start + 2]
                                b2 == buf[data_start + 3]
                                b3 == buf[data_start + 4]
                                b4 == buf[data_start + 5]
                            IN  SizeOf(BitOr(b1, ShiftLeft(BitAnd(b2, 63), 8)) + 1,
                                       BitOr(BitOr(ShiftRight(b2, 6), ShiftLeft(b3, 2)),
                                             ShiftLeft(BitAnd(b4, 3), 10)) + 1)
                  ELSE next
             ELSE next

\* lines 132-167
read_webp_size(buf) ==
    IF Len(buf) < 12 THEN None
    ELSE IF Slice(buf, 0, 4) # B_RIFF \/ Slice(buf, 8, 12) # B_WEBP THEN None
    ELSE WebpChunks(buf, 12)

\* lines 170-178: the reader is chosen by the extension of the file name
get_image_size(f) ==
    LET ext == LowerStr(SplitExtExt(f.rel))
    IN  IF ext = <<".", "p", "n", "g">> THEN read_png_size(f.data.v)
        ELSE IF ext = <<".", "w", "e", "b", "p">> THEN read_webp_size(f.data.v)
        ELSE IF ext \in {<<".", "j", "p", "g">>, <<".", "j", "p", "e", "g">>} THEN read_jpeg_size(f.data.v)
        ELSE None

\* lines 180-201
is_image_magic_ok(f) ==
    LET head == Slice(f.data.v, 0, 12)
        buf  == Slice(f.data.v, 0, 16)
    IN  IF Len(head) < 4 THEN FALSE
        ELSE \/ Slice(head, 0, 8) = B_PNG_magic
             \/ Slice(head, 0, 2) = <<255, 216>>
             \/ /\ Slice(head, 0, 4) = B_RIFF
                /\ Len(buf) >= 12
                /\ Slice(buf, 8, 12) = B_WEBP

\* q occurs in s
Contains(s, q) == \E p \in 0..(Len(s) - Len(q)) : Slice(s, p, p + Len(q)) = q

\* what \s matches among the ASCII codes
AsciiSpace == {9, 10, 11, 12, 13, 28, 29, 30, 31, 32}

\* the end (exclusive, 0-based) of the match of https?://[^\s%]+ that starts
\* at p, or -1
UrlEndAt(s, p) ==
    LET q == IF Slice(s, p + 4, p + 5) = <<115>> THEN p + 5 ELSE p + 4
        r == q + 3
        e == SkipWhile(s, r + 1, (0..127) \ (AsciiSpace \cup {37})) - 1
    IN  IF Slice(s, p, p + 4) = B_http /\ Slice(s, q, r) = B_colon_slashes /\ e > r
        THEN e ELSE -1

\* lines 203-215
extract_stub_url(f) ==
    LET s == DecodeIgnore(Slice(f.data.v, 0, 1024))
    IN  IF ~Contains(s, B_No_Content) THEN None
        ELSE IF \E p \in 0..(Len(s) - 1) : UrlEndAt(s, p) # -1
        THEN LET p == CHOOSE p \in 0..(Len(s) - 1) :
                         /\ UrlEndAt(s, p) # -1
                         /\ \A o \in 0..(p - 1) : UrlEndAt(s, o) = -1
             IN  PyStr(Slice(s, p, UrlEndAt(s, p)))
        ELSE None

\* The outcomes of the three operations of copy_image_resolving_stub that touch
\* the network or dst.  io.read: opening src ("ok", "fails"); io.copy:
\* shutil.copy2, which copies the bytes and then the file's times and mode
\* ("ok"; "fails" before any byte is written; "fails_midway" with part of the
\* bytes written; "fails_after_data" in the copy of times and mode); io.fetch:
\* urlopen and read ("ok", "fails"); io.write: open(dst, "wb") and write ("ok";
\* "fails" in open; "fails_midway" after dst was opened and emptied).

\* shutil.copy2(src, dst), lines 221 and 238; dst is the list of 0 or 1 contents
\* of the file at dst
copy2(dst, data, io) ==
    CASE io.read # "ok" \/ io.copy = "fails" ->
             [raised |-> TRUE, dst |-> dst, written |-> "no"]
      [] io.read = "ok" /\ io.copy = "fails_midway" ->
             [raised |-> TRUE, written |-> "part",
              dst |-> << [kind |-> data.kind, v |-> SubSeq(data.v, 1, Len(data.v) \div 2)] >>]
      [] io.read = "ok" /\ io.copy = "fails_after_data" ->
             [raised |-> TRUE, dst |-> << data >>, written |-> "whole"]
      [] io.read = "ok" /\ io.copy = "ok" ->
             [raised |-> FALSE, dst |-> << data >>, written |-> "whole"]

\* lines 228-231: the fetch of url, then the write of what was fetched
FetchAndWrite(dst, url, io) ==
    CASE io.fetch # "ok" ->
             [raised |-> TRUE, dst |-> dst, written |-> "no", ops |-> <<"fetch">>]
      [] io.fetch = "ok" /\ io.write = "fails" ->
             [raised |-> TRUE, dst |-> dst, written |-> "no", ops |-> <<"fetch", "write">>]
      [] io.fetch = "ok" /\ io.write = "fails_midway" ->
             [raised |-> TRUE, dst |-> << [kind |-> "fetched", v |-> <<>>] >>,
              written |-> "part", ops |-> <<"fetch", "write">>]
      [] io.fetch = "ok" /\ io.write = "ok" ->
             [raised |-> FALSE, dst |-> << [kind |-> "fetched", v |-> url] >>,
              written |-> "whole", ops |-> <<"fetch", "write">>]

\* lines 217-241: the result, dst afterwards, whether bytes were put into dst,
\* and the operations attempted in order.  Both probes of src return their
\* negative answer when src cannot be opened (lines 200, 214).
CopyImage(src, dst, io) ==
    LET magic == io.read = "ok" /\ is_image_magic_ok(src)
        url   == IF io.read = "ok" THEN extract_stub_url(src) ELSE None
        c     == copy2(dst, src.data, io)
        f     == FetchAndWrite(dst, url.v, io)
    IN  IF magic
        THEN [result |-> ~c.raised, dst |-> c.dst, written |-> c.written, ops |-> <<"copy">>]
        ELSE IF Truthy(url)
        THEN [result |-> ~f.raised, dst |-> f.dst, written |-> f.written, ops |-> f.ops]
        ELSE [result |-> ~c.raised, dst |-> c.dst, written |-> c.written, ops |-> <<"copy">>]

\* the operations of a run all succeed but the fetch, which succeeds when net
IoOfRun(net) ==
    [read |-> "ok", copy |-> "ok", fetch |-> IF net THEN "ok" ELSE "fails", write |-> "ok"]

\* fs after copy_image_resolving_stub(src, dst); net tells whether the fetch
\* of a placeholder's URL succeeds
copy_image_resolving_stub(files, src, dst, net) ==
    LET before == IF Exists(files, dst) THEN << files[dst] >> ELSE <<>>
        out    == CopyImage(src, before, IoOfRun(net))
    IN  IF out.written = "no" THEN files ELSE WriteFile(files, dst, out.dst[1])

-----------------------------------------------------------------------------
(* Image files the readers are run on: the headers of well-formed files, built
   from the values of their width and height fields *)

U16Big(n) == << (n \div 256) % 256, n % 256 >>
U32Big(n) == U16Big(n \div 65536) \o U16Big(n % 65536)
U16Little(n) == << n % 256, (n \div 256) % 256 >>
U24Little(n) == << n % 256, (n \div 256) % 256, (n \div 65536) % 256 >>
U32Little(n) == U16Little(n % 65536) \o U16Little(n \div 65536)

\* signature, IHDR chunk (length, type, width, height, five bytes, CRC)
PngFile(w, h) ==
    B_PNG_magic \o U32Big(13) \o <<73, 72, 68, 82>> \o U32Big(w) \o U32Big(h)
        \o <<8, 6, 0, 0, 0>> \o <<0, 0, 0, 0>>

\* SOI, an APP0 segment, a SOF0 segment (length, precision, height, width,
\* one component), EOI
JpegFile(w, h) ==
    <<255, 216>> \o <<255, 224, 0, 4, 0, 0>>
        \o <<255, 192, 0, 11, 8>> \o U16Big(h) \o U16Big(w) \o <<1, 1, 17, 0>>
        \o <<255, 217>>

\* RIFF header and a VP8X chunk: flags, reserved, 24-bit width and height fields
WebpVp8xFile(fw, fh) ==
    B_RIFF \o U32Little(22) \o B_WEBP \o B_VP8X \o U32Little(10)
        \o <<0, 0, 0, 0>> \o U24Little(fw) \o U24Little(fh)

\* RIFF header and a VP8 chunk: frame tag, start code, 14-bit width and
\* height fields (the two bits above each are the scale, 0)
WebpVp8File(fw, fh) ==
    B_RIFF \o U32Little(22) \o B_WEBP \o B_VP8_ \o U32Little(10)
        \o <<0, 0, 0>> \o <<157, 1, 42>> \o U16Little(fw) \o U16Little(fh)

\* RIFF header and a VP8L chunk: signature byte, then 14 bits of width field,
\* 14 bits of height field, alpha and version bits (0), lowest bit first
WebpVp8lFile(fw, fh) ==
    B_RIFF \o U32Little(18) \o B_WEBP \o B_VP8L \o U32Little(5)
        \o <<47>> \o U32Little(fw + 16384 * fh) \o <<0>>

-----------------------------------------------------------------------------
(* Skeleton bundles, lines 500-538 *)

S_size_colon == <<"s", "i", "z", "e", ":">>
S_dot_atlas == <<".", "a", "t", "l", "a", "s">>
S_dot_json == <<".", "j", "s", "o", "n">>
S_texture == <<"t", "e", "x", "t", "u", "r", "e">>

\* the match of size:\s*(\d+)\s*,\s*(\d+), case ignored, that starts at p
SizeMatchAt(s, p) ==
    LET a == SkipWhile(s, p + 5, Whitespace)
        b == SkipWhile(s, a, Digit)
        c == SkipWhile(s, b, Whitespace)
        d == SkipWhile(s, c + 1, Whitespace)
        e == SkipWhile(s, d, Digit)
    IN  IF /\ p + 4 <= Len(s)
           /\ LowerStr(SubSeq(s, p, p + 4)) = S_size_colon
           /\ b > a
           /\ c <= Len(s)
           /\ s[c] = ","
           /\ e > d
        THEN [k |-> "pair", v |-> [W |-> ParseInt(SubSeq(s, a, b - 1)),
                                   H |-> ParseInt(SubSeq(s, d, e - 1))]]
        ELSE None

\* re.search: the leftmost match
SizeMarker(s) ==
    IF \E p \in 1..Len(s) : SizeMatchAt(s, p) # None
    THEN SizeMatchAt(s, CHOOSE p \in 1..Len(s) :
                            /\ SizeMatchAt(s, p) # None
                            /\ \A q \in 1..(p - 1) : SizeMatchAt(s, q) = None)
    ELSE None

\* the table entry taken without looking at the hint
CompUuid_First(sk, uuids) == uuids[1]

\* lines 512-515: the table entry the texture-index hint points at, the first
\* entry when there is no hint or the hint is out of range
CompUuid(sk, uuids) ==
    LET idx == IF Truthy(sk.textureIndices) /\ IsIntInstance(sk.textureIndices.v[1])
               THEN IntValue(sk.textureIndices.v[1]) ELSE 0
    IN  IF 0 <= idx /\ idx < Len(uuids) THEN uuids[idx + 1] ELSE uuids[1]

\* lines 516-517: comp_uuid[:2] and the dict lookup raise TypeError unless
\* comp_uuid is a string
SkeletonRaises(sk, uuids) == uuids # <<>> /\ ~IsStr(CompUuid(sk, uuids))

\* lines 509-529: the image chosen for the bundle, as a list of 0 or 1 files
TargetImage(sk, uuids, nbp) ==
    IF uuids = <<>> THEN <<>>
    ELSE LET m    == SizeMarker(sk.atlasText.v)
             comp_uuid == CompUuid(sk, uuids)
             cand == Candidates(nbp, Prefix(comp_uuid.v, 2))
             SizeFits(f) == /\ get_image_size(f) # None
                            /\ get_image_size(f).v.width = m.v.W
                            /\ get_image_size(f).v.height = m.v.H
             hit  == IF m = None THEN 0 ELSE FirstWhere(cand, SizeFits)
         IN  IF hit # 0 THEN << cand[hit] >>
             ELSE IF cand # <<>> THEN << cand[1] >>
             ELSE <<>>

\* lines 501-538 for one skeleton entry: st is [fs, dirs, raised]; the two
\* text files are written before the table entry is looked at
RestoreSkeleton(st, sk, uuids, nbp, net) ==
    LET dir_name  == IF Truthy(sk.name) THEN safe_slug(sk.name.v) ELSE S_spine
        spine_dir == Join(Join(S_out, S_spine), dir_name)
        f1 == WriteFile(st.fs, Join(spine_dir, dir_name \o S_dot_atlas),
                        [kind |-> "text", v |-> sk.atlasText.v])
        f2 == WriteFile(f1, Join(spine_dir, dir_name \o S_dot_json),
                        [kind |-> "json", v |-> sk.skeletonJson])
        target == TargetImage(sk, uuids, nbp)
        ext == LowerStr(SplitExtExt(target[1].rel))
        base_name == IF Truthy(sk.textureNames) /\ IsStr(sk.textureNames.v[1])
                     THEN SplitExtRoot(sk.textureNames.v[1].v) \o ext
                     ELSE S_texture \o ext
    IN  IF SkeletonRaises(sk, uuids)
        THEN [fs |-> f2, dirs |-> ensure_dir(st.dirs, spine_dir), raised |-> TRUE]
        ELSE [fs   |-> IF target = <<>> THEN f2
                       ELSE copy_image_resolving_stub(f2, target[1],
                                                      Join(spine_dir, base_name), net),
              dirs |-> ensure_dir(st.dirs, spine_dir),
              raised |-> FALSE]

RECURSIVE RestoreSkeletons(_, _, _, _, _, _)
\* lines 500-538 for the skeleton entries 1..n of the document
RestoreSkeletons(st, skeletons, uuids, nbp, nets, n) ==
    IF n = 0 THEN st
    ELSE LET before == RestoreSkeletons(st, skeletons, uuids, nbp, nets, n - 1)
         IN  IF before.raised THEN before
             ELSE RestoreSkeleton(before, skeletons[n], uuids, nbp, nets[n])

\* line 499
UuidsOf(json_data) ==
    IF IsList(json_data) /\ Len(json_data.v) > 1 /\ IsList(json_data.v[2])
    THEN json_data.v[2].v ELSE <<>>

-----------------------------------------------------------------------------
(* Atlas folders, lines 553-608 *)

S_texture_ == <<"t", "e", "x", "t", "u", "r", "e", "_">>
S_atlas_ == <<"a", "t", "l", "a", "s", "_">>
S_dot_plist == <<".", "p", "l", "i", "s", "t">>

\* int(x) raises TypeError for None, a list or a dict and ValueError for a
\* string that is not a run of digits
IntRaises(x) ==
    \/ x.k \in {"null", "list", "dict"}
    \/ x.k = "str" /\ (x.v = <<>> \/ ~IsDigits(x.v))

\* int(x)
IntOf(x) ==
    CASE x.k = "int"   -> x.v
      [] x.k = "bool"  -> IF x.v THEN 1 ELSE 0
      [] x.k = "float" -> IF x.v.num >= 0 THEN x.v.num \div x.v.den
                          ELSE -((-x.v.num) \div x.v.den)
      [] x.k = "str"   -> ParseInt(x.v)

\* x[i] raises IndexError past the end of a list or string, KeyError on a
\* dict (its keys are strings) and TypeError on anything else
SubscriptRaises(x, i) ==
    IF x.k \in {"list", "str"} THEN i >= Len(x.v) ELSE TRUE

\* x[i], i >= 0
Subscript(x, i) == IF x.k = "str" THEN PyStr(<< x.v[i + 1] >>) ELSE x.v[i + 1]

\* int(x[i]) raises
IntAtRaises(x, i) == SubscriptRaises(x, i) \/ IntRaises(Subscript(x, i))

\* int(x[i][j]) raises
IntAt2Raises(x, i, j) == SubscriptRaises(x, i) \/ IntAtRaises(Subscript(x, i), j)

\* parse_rect(rect) raises
parse_rect_raises(rect) ==
    /\ IsList(rect)
    /\ IF rect.v # <<>> /\ IsList(rect.v[1])
       THEN \/ IntAt2Raises(rect, 0, 0) \/ IntAt2Raises(rect, 0, 1)
            \/ IntAt2Raises(rect, 1, 0) \/ IntAt2Raises(rect, 1, 1)
       ELSE \E i \in 0..3 : IntAtRaises(rect, i)

\* parse_pair(pair) raises
parse_pair_raises(pair) ==
    IsList(pair) /\ \E i \in 0..1 : IntAtRaises(pair, i)

\* str(n) of an int
IntStr(n) == IF n < 0 THEN <<"-">> \o ToStr(-n) ELSE ToStr(n)

parse_rect(rect) ==
    IF ~IsList(rect) THEN [x |-> 0, y |-> 0, w |-> 0, h |-> 0]
    ELSE IF rect.v # <<>> /\ IsList(rect.v[1])
    THEN [x |-> IntOf(Subscript(rect.v[1], 0)), y |-> IntOf(Subscript(rect.v[1], 1)),
          w |-> IntOf(Subscript(rect.v[2], 0)), h |-> IntOf(Subscript(rect.v[2], 1))]
    ELSE [x |-> IntOf(rect.v[1]), y |-> IntOf(rect.v[2]),
          w |-> IntOf(rect.v[3]), h |-> IntOf(rect.v[4])]

parse_pair(pair) ==
    IF ~IsList(pair) THEN [x |-> 0, y |-> 0]
    ELSE [x |-> IntOf(pair.v[1]), y |-> IntOf(pair.v[2])]

\* f"{{{a},{b}}}"
Braced(a, b) == <<"{">> \o IntStr(a) \o <<",">> \o IntStr(b) \o <<"}">>

\* lines 579-581 raise
FrameEntryRaises(fr) ==
    \/ parse_rect_raises(fr.rect)
    \/ parse_pair_raises(fr.offset)
    \/ parse_pair_raises(fr.originalSize)

\* lines 578-587 raise for the group: nothing of the group is written yet
EmitRaises(group) == \E i \in 1..Len(group.frames) : FrameEntryRaises(group.frames[i])

\* lines 579-587
FrameEntry(fr) ==
    LET r   == parse_rect(fr.rect)
        off == parse_pair(fr.offset)
        osz == parse_pair(fr.originalSize)
    IN  [name       |-> fr.name,
         rotated    |-> fr.rotated,
         frame      |-> Braced(r.x, r.y) \o <<",">> \o Braced(r.w, r.h),
         offset     |-> Braced(off.x, off.y),
         sourceSize |-> Braced(osz.x, osz.y)]

\* lines 558-575: the texture of the group, as a list of 0 or 1 files
ImageFile(cand) ==
    LET Sound(e) == FirstWhere(cand, LAMBDA f : EndsWith(LowerStr(f.rel), e) /\ is_image_magic_ok(f))
        Named(e) == FirstWhere(cand, LAMBDA f : EndsWith(LowerStr(f.rel), e))
        es == FirstWhere(ImageExtSeq, LAMBDA e : Sound(e) # 0)
        en == FirstWhere(ImageExtSeq, LAMBDA e : Named(e) # 0)
    IN  IF es # 0 THEN << cand[Sound(ImageExtSeq[es])] >>
        ELSE IF en # 0 THEN << cand[Named(ImageExtSeq[en])] >>
        ELSE <<>>

\* the content of the plist: build_plist(frames_obj, texture_file_name)
build_plist(frames_obj, texture_file_name) ==
    [kind |-> "plist",
     v    |-> [frames |-> frames_obj, format |-> 2, textureFileName |-> texture_file_name]]

\* lines 554 and 589: the folder of the group of comp_uuid
AtlasDir(comp_uuid) ==
    Join(Join(S_out, S_sprite_atlases),
         Prefix(comp_uuid, 2) \o <<"_">> \o safe_slug(Prefix(comp_uuid, 6)))

\* lines 591-592: the path of the descriptor of the group of comp_uuid
PlistPath(comp_uuid) ==
    Join(AtlasDir(comp_uuid), S_atlas_ \o safe_slug(Prefix(comp_uuid, 8)) \o S_dot_plist)

\* lines 554-608 for one group: st is [fs, dirs]
EmitGroup(st, group, nbp, net) ==
    LET comp_uuid  == group.key
        prefix     == Prefix(comp_uuid, 2)
        image_file == ImageFile(Candidates(nbp, prefix))
        texture_file_name == IF image_file # <<>> THEN Basename(image_file[1].rel)
                             ELSE S_texture_ \o prefix \o <<".", "p", "n", "g">>
        frames_obj == [i \in 1..Len(group.frames) |-> FrameEntry(group.frames[i])]
        out_dir    == AtlasDir(comp_uuid)
        f1 == WriteFile(st.fs, PlistPath(comp_uuid),
                        build_plist(frames_obj, texture_file_name))
        stale == { Join(out_dir, old) :
                     old \in { o \in ListDir(f1, out_dir) :
                                 HasExt(o, ImageExts) /\ o # texture_file_name } }
        f2 == RemoveFiles(f1, stale)
    IN  [fs   |-> IF image_file = <<>> THEN f2
                  ELSE copy_image_resolving_stub(f2, image_file[1],
                                                 Join(out_dir, texture_file_name), net),
         dirs |-> ensure_dir(st.dirs, out_dir)]

-----------------------------------------------------------------------------
(* Inferred clips, lines 630-675 *)

S_anim_guessed_json == <<".", "a", "n", "i", "m", ".", "g", "u", "e", "s", "s", "e", "d", ".", "j", "s", "o", "n">>

FrameNames(group) == [i \in 1..Len(group.frames) |-> group.frames[i].name.v]

\* line 617: re.match raises TypeError on a name that is not a string
InferRaises(group) == \E i \in 1..Len(group.frames) : ~IsStr(group.frames[i].name)

RECURSIVE InferSeries(_, _, _, _)
\* lines 640-675 for the bases 1..n of the series dict: st is [fs, collected]
InferSeries(st, ser, comp_uuid, n) ==
    IF n = 0 THEN st
    ELSE LET before   == InferSeries(st, ser, comp_uuid, n - 1)
             clips    == InferOne(ser[n].base, ser[n].lst, comp_uuid)
             out_file == Join(Join(S_out, S_animations_auto),
                              safe_slug(ser[n].base) \o S_anim_guessed_json)
         IN  IF clips = <<>> THEN before
             ELSE [fs        |-> WriteFile(before.fs, out_file, [kind |-> "clip", v |-> clips[1]]),
                   collected |-> Append(before.collected,
                                        [name |-> ser[n].base, path |-> out_file])]

\* lines 632-675 for one group
InferGroupClips(st, group) ==
    LET ser == BuildSeriesOf(FrameNames(group))
    IN  InferSeries(st, ser, group.key, Len(ser))

-----------------------------------------------------------------------------
(* Inputs of a run *)

MaxDocs == 2

MaxRuns == 2

S_R12 == <<"a", "b", "c", "d", "e", "f", "1", "2">>
S_R13 == <<"a", "b", "c", "d", "e", "f", "1", "3">>
\* a reference that agrees with abcdef12 in its first 8 characters
S_R12x == <<"a", "b", "c", "d", "e", "f", "1", "2", "x">>

S_g_01 == <<"g", "_", "0", "1">>
S_g_02 == <<"g", "_", "0", "2">>
S_g_03 == <<"g", "_", "0", "3">>

IntList(q) == PyList([i \in 1..Len(q) |-> PyInt(q[i])])

\* the frame records of the model documents, as extract_sprite_frames is to
\* return them; A1 and A2 carry the same name and differ in every other field
FrameRec(id) ==
    CASE id = "A1" -> [name |-> PyStr(S_g_01), rotated |-> FALSE,
                       rect |-> IntList(<<0, 0, 4, 4>>),
                       offset |-> IntList(<<0, 0>>),
                       originalSize |-> IntList(<<4, 4>>)]
      [] id = "A2" -> [name |-> PyStr(S_g_01), rotated |-> TRUE,
                       rect |-> PyList(<< IntList(<<4, 0>>), IntList(<<2, 3>>) >>),
                       offset |-> IntList(<<1, -1>>),
                       originalSize |-> IntList(<<2, 3>>)]
      [] id = "B"  -> [name |-> PyStr(S_g_02), rotated |-> FALSE,
                       rect |-> IntList(<<0, 4, 4, 4>>),
                       offset |-> IntList(<<0, 0>>),
                       originalSize |-> IntList(<<4, 4>>)]
      [] id = "C"  -> [name |-> PyStr(S_g_03), rotated |-> FALSE,
                       rect |-> IntList(<<4, 4, 4, 4>>),
                       offset |-> IntList(<<0, 0>>),
                       originalSize |-> IntList(<<4, 4>>)]
      \* a rect of three numbers
      [] id = "S"  -> [name |-> PyStr(S_g_02), rotated |-> FALSE,
                       rect |-> IntList(<<0, 0, 4>>),
                       offset |-> IntList(<<0, 0>>),
                       originalSize |-> IntList(<<4, 4>>)]

\* the JSON object of a frame record
FrameDict(fr) ==
    PyDict(<< [key |-> S_name, val |-> fr.name],
              [key |-> S_rect, val |-> fr.rect],
              [key |-> S_offset, val |-> fr.offset],
              [key |-> S_originalSize, val |-> fr.originalSize],
              [key |-> S_rotated, val |-> PyBool(fr.rotated)] >>)

S_hero == <<"h", "e", "r", "o">>
S_hero_png == <<"h", "e", "r", "o", ".", "p", "n", "g">>
S_atlas_text == <<"s", "i", "z", "e", ":", " ", "4", ",", "4">>

\* a skeleton entry: [0, name, atlasText, textureNames, skeletonJson, textureIndices]
SkeletonNode ==
    PyList(<< PyInt(0), PyStr(S_hero), PyStr(S_atlas_text),
              PyList(<< PyStr(S_hero_png) >>), PyDict(<<>>), IntList(<<0>>) >>)

\* the identifier table of a document whose reference is ref
TableOf(ref) ==
    CASE ref = "R12"  -> << PyStr(S_R12) >>
      [] ref = "R13"  -> << PyStr(S_R13) >>
      [] ref = "R12x" -> << PyStr(S_R12x) >>
      [] ref = "none" -> <<>>
      \* a table whose first entry is a number
      [] ref = "int"  -> << PyInt(7) >>

\* the parsed document of a case [ref, frs, sk]
MkDoc(case) ==
    PyList(<< PyInt(1),
              PyList(TableOf(case.ref)),
              PyList([i \in 1..Len(case.frs) |-> FrameDict(FrameRec(case.frs[i]))]
                     \o (IF case.sk THEN << SkeletonNode >> ELSE <<>>)) >>)

\* os.path.basename(jf) of the i-th document
DocName(i) == <<"d">> \o ToStr(i) \o S_dot_json

RECURSIVE SeqsUpTo(_, _)
\* the sequences of at most n elements of S
SeqsUpTo(S, n) ==
    IF n = 0 THEN {<<>>}
    ELSE LET shorter == SeqsUpTo(S, n - 1)
         IN  shorter \cup
             UNION { { Append(q, e) : e \in S } : q \in { r \in shorter : Len(r) = n - 1 } }

FrameLists == { <<"A1">>, <<"A2">>, <<"A1", "A2">>, <<"A2", "B", "C">>, <<"A1", "B", "C">> }

ScanCases == { [ref |-> r, frs |-> f, sk |-> FALSE] : r \in {"R12", "R13", "none"}, f \in FrameLists }
                 \cup { [ref |-> "R12", frs |-> <<>>, sk |-> TRUE] }

RunCases ==
    { [ref |-> "R12", frs |-> <<"A1", "B", "C">>, sk |-> FALSE],
      [ref |-> "R13", frs |-> <<"A2", "B", "C">>, sk |-> FALSE],
      [ref |-> "R12", frs |-> <<>>, sk |-> TRUE],
      [ref |-> "none", frs |-> <<"A1">>, sk |-> FALSE],
      [ref |-> "R13", frs |-> <<"S">>, sk |-> FALSE],
      [ref |-> "R12x", frs |-> <<"A2">>, sk |-> FALSE],
      [ref |-> "int", frs |-> <<>>, sk |-> TRUE] }

NativeSnd1 == [rel |-> <<"a", "b", "/", "s", "n", "d", ".", "m", "p", "3">>, data |-> [kind |-> "bytes", v |-> <<120>>]]
NativeSnd2 == [rel |-> <<"c", "d", "/", "s", "n", "d", ".", "m", "p", "3">>, data |-> [kind |-> "bytes", v |-> <<121>>]]
\* a placeholder: the text "No Content http://h/t"
NativeStub == [rel |-> <<"a", "b", "/", "s", ".", "p", "n", "g">>, data |-> [kind |-> "bytes", v |-> <<78, 111, 32, 67, 111, 110, 116, 101, 110, 116, 32, 104, 116, 116, 112, 58, 47, 47, 104, 47, 116>>]]
NativePng == [rel |-> <<"a", "b", "/", "t", ".", "p", "n", "g">>, data |-> [kind |-> "bytes", v |-> PngFile(4, 4)]]

\* the files below native_root, in os.walk order
NativeChoices ==
    { <<>>,
      << NativeSnd1 >>,
      << NativeSnd1, NativeSnd2 >>,
      << NativeStub, NativePng >>,
      << NativeStub, NativeSnd1 >>,
      << NativePng, NativeSnd1, NativeSnd2 >> }

S_old_snd == Join(Join(S_out, S_audio), <<"s", "n", "d", ".", "m", "p", "3">>)

\* what output_dir holds before the first run: nothing, or an audio file
OutputChoices ==
    { [fs |-> <<>>, dirs |-> {}],
      [fs |-> (S_old_snd :> [kind |-> "bytes", v |-> <<111>>]),
       dirs |-> Ancestors(Join(S_out, S_audio))] }

-----------------------------------------------------------------------------
(* main() *)

\* the note of the index (line 679), in translation
S_note == "auto-inferred sequence animations, from the numeric suffixes of atlas frame names"

AudioDir == Join(S_out, S_audio)
AutoAnimDir == Join(S_out, S_animations_auto)

\* a check that looks at the import subdirectory only
Preconditions_ImportOnly(n, imp, nat) == n >= 3 /\ imp

\* lines 444-458: two positional arguments, and both subdirectories exist
Preconditions(n, imp, nat) == n >= 3 /\ imp /\ nat

\* lines 444-466
Start ==
    /\ pc = "start"
    /\ IF Preconditions(argv_len, has_import, has_native)
       THEN /\ dirs' = ensure_dir(ensure_dir(ensure_dir(dirs, S_out), Join(S_out, S_spine)),
                                  Join(S_out, S_sprite_atlases))
            /\ pc' = "audio"
            /\ exit_code' = exit_code
       ELSE /\ dirs' = dirs
            /\ pc' = "exited"
            /\ exit_code' = 1
    /\ UNCHANGED <<varsInput, fs, run_no, native_by_prefix, atlas_groups, loop_i, auto_collected, fs_first, fs0, dirs0,
                   varsInfer, varsClip, varsUnit>>

\* line 470: extract_audio(native_root, output_dir)
ExtractAudio ==
    /\ pc = "audio"
    /\ dirs' = ensure_dir(dirs, AudioDir)
    /\ fs' = extract_audio(fs, native)
    /\ pc' = "index"
    /\ UNCHANGED <<varsInput, exit_code, run_no, native_by_prefix, atlas_groups, loop_i, auto_collected, fs_first, fs0, dirs0,
                   varsInfer, varsClip, varsUnit>>

\* lines 474-490
IndexNative ==
    /\ pc = "index"
    /\ native_by_prefix' = IndexImages(native, Len(native))
    /\ atlas_groups' = <<>>
    /\ loop_i' = 1
    /\ pc' = IF doc_cases = <<>> THEN "emit" ELSE "scan"
    /\ UNCHANGED <<varsInput, fs, dirs, exit_code, run_no, auto_collected, fs_first, fs0, dirs0,
                   varsInfer, varsClip, varsUnit>>

\* lines 491-549: one iteration of the loop over the documents
ScanDocument ==
    /\ pc = "scan"
    /\ loop_i <= Len(doc_cases)
    /\ LET json_data == MkDoc(doc_cases[loop_i])
           skeletons == extract_skeleton_entries(json_data)
       IN  \E nets \in [1..Len(skeletons) -> BOOLEAN] :
              LET st == RestoreSkeletons([fs |-> fs, dirs |-> dirs, raised |-> FALSE],
                                         skeletons, UuidsOf(json_data), native_by_prefix,
                                         nets, Len(skeletons))
              IN  /\ fs' = st.fs
                  /\ dirs' = st.dirs
                  /\ IF st.raised \/ CollectRaises(json_data)
                     THEN /\ pc' = "crashed"
                          /\ exit_code' = 1
                          /\ UNCHANGED <<atlas_groups, loop_i>>
                     ELSE /\ atlas_groups' = CollectFrames(atlas_groups, json_data,
                                                           DocName(loop_i))
                          /\ loop_i' = IF loop_i = Len(doc_cases) THEN 1 ELSE loop_i + 1
                          /\ pc' = IF loop_i = Len(doc_cases) THEN "emit" ELSE "scan"
                          /\ exit_code' = exit_code
    /\ UNCHANGED <<varsInput, run_no, native_by_prefix, auto_collected, fs_first, fs0, dirs0,
                   varsInfer, varsClip, varsUnit>>

\* lines 553-608: one iteration of the loop over atlas_groups
EmitAtlas ==
    /\ pc = "emit"
    /\ loop_i <= Len(atlas_groups)
    /\ IF EmitRaises(atlas_groups[loop_i])
       THEN /\ pc' = "crashed"
            /\ exit_code' = 1
            /\ UNCHANGED <<fs, dirs, loop_i>>
       ELSE /\ \E net \in BOOLEAN :
                  LET st == EmitGroup([fs |-> fs, dirs |-> dirs], atlas_groups[loop_i],
                                      native_by_prefix, net)
                  IN  fs' = st.fs /\ dirs' = st.dirs
            /\ loop_i' = loop_i + 1
            /\ UNCHANGED <<pc, exit_code>>
    /\ UNCHANGED <<varsInput, run_no, native_by_prefix, atlas_groups, auto_collected, fs_first, fs0, dirs0,
                   varsInfer, varsClip, varsUnit>>

\* lines 612-628
BeginInference ==
    /\ pc = "emit"
    /\ loop_i > Len(atlas_groups)
    /\ dirs' = ensure_dir(dirs, AutoAnimDir)
    /\ auto_collected' = <<>>
    /\ loop_i' = 1
    /\ pc' = "infer"
    /\ UNCHANGED <<varsInput, fs, exit_code, run_no, native_by_prefix, atlas_groups, fs_first, fs0, dirs0,
                   varsInfer, varsClip, varsUnit>>

\* lines 630-675: one iteration of the loop over atlas_groups
InferGroup ==
    /\ pc = "infer"
    /\ loop_i <= Len(atlas_groups)
    /\ IF InferRaises(atlas_groups[loop_i])
       THEN /\ pc' = "crashed"
            /\ exit_code' = 1
            /\ UNCHANGED <<fs, auto_collected, loop_i>>
       ELSE /\ LET st == InferGroupClips([fs |-> fs, collected |-> auto_collected],
                                         atlas_groups[loop_i])
               IN  fs' = st.fs /\ auto_collected' = st.collected
            /\ loop_i' = loop_i + 1
            /\ UNCHANGED <<pc, exit_code>>
    /\ UNCHANGED <<varsInput, dirs, run_no, native_by_prefix, atlas_groups, fs_first, fs0, dirs0,
                   varsInfer, varsClip, varsUnit>>

\* lines 677-684: the index of the inferred clips, then the summary
Finish ==
    /\ pc = "infer"
    /\ loop_i > Len(atlas_groups)
    /\ fs' = WriteFile(fs, Join(AutoAnimDir, S_index_json),
                       [kind |-> "index", v |-> [clips |-> auto_collected, note |-> S_note]])
    /\ fs_first' = IF run_no = 1 THEN fs' ELSE fs_first
    /\ pc' = "done"
    /\ exit_code' = 0
    /\ UNCHANGED <<varsInput, dirs, run_no, native_by_prefix, atlas_groups, loop_i, auto_collected, fs0, dirs0,
                   varsInfer, varsClip, varsUnit>>

\* the tool is run again, with the same arguments, on what the run before left
Rerun ==
    /\ pc = "done"
    /\ run_no < MaxRuns
    /\ run_no' = run_no + 1
    /\ pc' = "start"
    /\ exit_code' = -1
    /\ native_by_prefix' = <<>>
    /\ atlas_groups' = <<>>
    /\ loop_i' = 0
    /\ auto_collected' = <<>>
    /\ UNCHANGED <<varsInput, fs, dirs, fs_first, fs0, dirs0,
                   varsInfer, varsClip, varsUnit>>

RunStart ==
    /\ pc = "start"
    /\ exit_code = -1
    /\ run_no = 1
    /\ native_by_prefix = <<>>
    /\ atlas_groups = <<>>
    /\ loop_i = 0
    /\ auto_collected = <<>>
    /\ fs_first = <<>>

\* any arguments, any asset root, an output directory that is new or in use
Init ==
    /\ IdleUnit
    /\ IdleInfer
    /\ IdleClip
    /\ argv_len \in 1..3
    /\ has_import \in BOOLEAN
    /\ has_native \in BOOLEAN
    /\ native \in (IF has_native THEN NativeChoices ELSE {<<>>})
    /\ doc_cases \in (IF has_import THEN SeqsUpTo(RunCases, MaxDocs) ELSE {<<>>})
    /\ \E o \in OutputChoices :
          fs = o.fs /\ dirs = o.dirs /\ fs0 = o.fs /\ dirs0 = o.dirs
    /\ RunStart

Next ==
    \/ Start
    \/ ExtractAudio
    \/ IndexNative
    \/ ScanDocument
    \/ EmitAtlas
    \/ BeginInference
    \/ InferGroup
    \/ Finish
    \/ Rerun

Spec == Init /\ [][Next]_vars

\* one run on a valid asset root and a new output directory, over many documents
InitScan ==
    /\ IdleUnit
    /\ IdleInfer
    /\ IdleClip
    /\ argv_len = 3
    /\ has_import = TRUE
    /\ has_native = TRUE
    /\ native = << NativeStub, NativePng >>
    /\ doc_cases \in SeqsUpTo(ScanCases, MaxDocs)
    /\ fs = <<>> /\ dirs = {} /\ fs0 = <<>> /\ dirs0 = {}
    /\ RunStart

NextScan ==
    \/ Start
    \/ ExtractAudio
    \/ IndexNative
    \/ ScanDocument
    \/ EmitAtlas
    \/ BeginInference
    \/ InferGroup
    \/ Finish

SpecScan == InitScan /\ [][NextScan]_vars

-----------------------------------------------------------------------------
(* The scan: properties *)

\* the number of documents the scan loop has been through
Scanned ==
    CASE pc \in {"start", "audio", "index", "exited"} -> 0
      [] pc = "scan" -> loop_i - 1
      [] OTHER -> Len(doc_cases)

\* the reference a document case was built with, as a list of 0 or 1 strings
RefOfCase(case) ==
    CASE case.ref = "R12" -> << S_R12 >>
      [] case.ref = "R13" -> << S_R13 >>
      [] case.ref = "R12x" -> << S_R12x >>
      [] OTHER -> <<>>

\* the frame records a document case was built with
RecordsOfCase(case) == [i \in 1..Len(case.frs) |-> FrameRec(case.frs[i])]

RECURSIVE Contributed(_, _)
\* the frame records of the first n documents whose reference is R, in scan order
Contributed(R, n) ==
    IF n = 0 THEN <<>>
    ELSE Contributed(R, n - 1)
         \o (IF RefOfCase(doc_cases[n]) = << R >> THEN RecordsOfCase(doc_cases[n]) ELSE <<>>)

NamesIn(q) == { q[i].name : i \in 1..Len(q) }

\* C3: after any sequence of documents has been scanned, every group holds, for
\* every frame name contributed to it, the rect, offset, originalSize and
\* rotated values of the first record with that name contributed to the group
\* in scan order; a later record with the same name changes nothing.
C3_FirstRecordKept ==
    \A gi \in 1..Len(atlas_groups) :
        LET g == atlas_groups[gi]
            q == Contributed(g.key, Scanned)
        IN  /\ NamesIn(g.frames) = NamesIn(q)
            /\ \A i \in 1..Len(g.frames) :
                  LET first == CHOOSE j \in 1..Len(q) :
                                  /\ q[j].name = g.frames[i].name
                                  /\ \A l \in 1..(j - 1) : q[l].name # g.frames[i].name
                  IN  /\ g.frames[i].rect = q[first].rect
                      /\ g.frames[i].offset = q[first].offset
                      /\ g.frames[i].originalSize = q[first].originalSize
                      /\ g.frames[i].rotated = q[first].rotated

\* the scan is over and a group was given two records of one name that differ
C3_Witness ==
    /\ pc = "emit"
    /\ \E gi \in 1..Len(atlas_groups) :
          LET q == Contributed(atlas_groups[gi].key, Scanned)
          IN  \E i \in 1..Len(q) : \E j \in (i + 1)..Len(q) :
                 /\ q[i].name = q[j].name
                 /\ q[i].rect # q[j].rect
                 /\ \E l \in 1..Len(atlas_groups[gi].frames) :
                       atlas_groups[gi].frames[l] = q[i]

\* the scanned documents that contribute: a reference and at least one frame
Contributors ==
    { d \in 1..Scanned : RefOfCase(doc_cases[d]) # <<>> /\ doc_cases[d].frs # <<>> }

\* C4: after any sequence of documents has been scanned, the group keyed by R
\* holds only frames of documents whose guessed reference is exactly R, its
\* sources are exactly those documents, and two documents whose references
\* differ contribute to two distinct groups.
C4_GroupsByExactReference ==
    /\ \A gi \in 1..Len(atlas_groups) :
          LET g == atlas_groups[gi]
              from == { d \in Contributors : RefOfCase(doc_cases[d]) = << g.key >> }
          IN  /\ \A i \in 1..Len(g.frames) :
                    \E d \in from : g.frames[i] \in Range(RecordsOfCase(doc_cases[d]))
              /\ g.sources = { DocName(d) : d \in from }
              /\ \A gj \in 1..Len(atlas_groups) : gj # gi => atlas_groups[gj].key # g.key
    /\ \A d \in Contributors :
          GroupPos(atlas_groups, RefOfCase(doc_cases[d])[1]) # 0
    /\ \A d, e \in Contributors :
          RefOfCase(doc_cases[d]) # RefOfCase(doc_cases[e])
          => GroupPos(atlas_groups, RefOfCase(doc_cases[d])[1])
                # GroupPos(atlas_groups, RefOfCase(doc_cases[e])[1])

\* the scan is over, two documents with the references abcdef12 and abcdef13
\* have contributed, and each reference has its own group
C4_Witness ==
    /\ pc = "emit"
    /\ \E d, e \in Contributors :
          /\ RefOfCase(doc_cases[d]) = << S_R12 >>
          /\ RefOfCase(doc_cases[e]) = << S_R13 >>
          /\ doc_cases[d].frs # doc_cases[e].frs
    /\ Len(atlas_groups) = 2
    /\ { atlas_groups[1].key, atlas_groups[2].key } = { S_R12, S_R13 }

-----------------------------------------------------------------------------
(* The run: properties *)

\* no native file is a placeholder whose content is fetched
NoStub ==
    \A i \in 1..Len(native) :
        is_image_magic_ok(native[i]) \/ ~Truthy(extract_stub_url(native[i]))

\* C7: a second run with unchanged inputs on the same output directory leaves
\* the files below it and their contents as the first run left them.
C7_RerunIdempotent ==
    (pc = "done" /\ run_no = 2 /\ NoStub) => fs = fs_first

\* a relocated audio file or an inferred clip document
IsItemPath(p) ==
    \/ Len(p) > Len(AudioDir) + 1 /\ SubSeq(p, 1, Len(AudioDir) + 1) = AudioDir \o <<"/">>
    \/ /\ Len(p) > Len(AutoAnimDir) + 1
       /\ SubSeq(p, 1, Len(AutoAnimDir) + 1) = AutoAnimDir \o <<"/">>
       /\ EndsWith(p, S_anim_guessed_json)

\* C8: no step of a run replaces an audio file or a clip document that already
\* exists: the file stays, with the content it had.
C8_NoWriteReplaces ==
    [][\A p \in DOMAIN fs : IsItemPath(p) => (p \in DOMAIN fs' /\ fs'[p] = fs[p])]_vars

S_animations == <<"a", "n", "i", "m", "a", "t", "i", "o", "n", "s">>

\* C9: a run that reaches its summary has written animations/index.json, the
\* index of the explicit clip documents.
C9_ExplicitIndexWritten ==
    pc = "done" => Exists(fs, Join(Join(S_out, S_animations), S_index_json))

\* C11: once the checks of the arguments have passed, no document, whatever
\* its shape, makes the run raise: the run never ends on an exception.
C11_RunNeverRaises ==
    pc # "crashed"

\* C10: with fewer than two positional arguments, or without the import or the
\* native subdirectory, the run exits with status 1 and nothing below the
\* output directory is made, written or deleted.
C10_NoOutputOnBadArguments ==
    (argv_len < 3 \/ ~has_import \/ ~has_native)
    => /\ pc \in {"start", "exited"}
       /\ pc = "exited" => exit_code = 1
       /\ fs = fs0
       /\ dirs = dirs0

\* the run has exited for want of the native subdirectory, the output
\* directory being in use
C10_Witness ==
    /\ pc = "exited"
    /\ argv_len = 3
    /\ has_import
    /\ ~has_native
    /\ fs0 # <<>>


-----------------------------------------------------------------------------
(* The dimension readers on whole and cut image files, lines 80-178 *)

\* values of a width or height field: the ends of the 14-bit range, the
\* values around each byte boundary of the packed VP8L pair
FieldValues == {0, 1, 255, 4095, 4096, 16383}

S_a_png == <<"a", ".", "p", "n", "g">>
S_a_jpg == <<"a", ".", "j", "p", "g">>
S_a_webp == <<"a", ".", "w", "e", "b", "p">>

\* a valid file of each format; fields_end is the number of bytes up to and
\* including the last byte of its width/height fields
ImageFixture(fmt, fw, fh) ==
    CASE fmt = "PNG"  -> [fmt |-> fmt, fw |-> fw, fh |-> fh, rel |-> S_a_png,
                          bytes |-> PngFile(fw, fh), fields_end |-> 24]
      [] fmt = "JPEG" -> [fmt |-> fmt, fw |-> fw, fh |-> fh, rel |-> S_a_jpg,
                          bytes |-> JpegFile(fw, fh), fields_end |-> 17]
      [] fmt = "VP8X" -> [fmt |-> fmt, fw |-> fw, fh |-> fh, rel |-> S_a_webp,
                          bytes |-> WebpVp8xFile(fw, fh), fields_end |-> 30]
      [] fmt = "VP8"  -> [fmt |-> fmt, fw |-> fw, fh |-> fh, rel |-> S_a_webp,
                          bytes |-> WebpVp8File(fw, fh), fields_end |-> 30]
      [] fmt = "VP8L" -> [fmt |-> fmt, fw |-> fw, fh |-> fh, rel |-> S_a_webp,
                          bytes |-> WebpVp8lFile(fw, fh), fields_end |-> 25]

ImageFormats == {"PNG", "JPEG", "VP8X", "VP8", "VP8L"}

WebpFormats == {"VP8X", "VP8", "VP8L"}

ImageFixtures ==
    {ImageFixture(fmt, fw, fh) : fmt \in ImageFormats, fw \in FieldValues, fh \in FieldValues}

\* the file on disk is the first n bytes of the fixture
Truncate(n) ==
    /\ spc = "file"
    /\ img_bytes' = SubSeq(img.bytes, 1, n)
    /\ spc' = "read"
    /\ UNCHANGED <<img, size_out, varsInfer, varsClip, varsRun, varsTex, varsCopy>>

\* get_image_size(path), lines 170-178
ReadSize ==
    /\ spc = "read"
    /\ size_out' = get_image_size([rel |-> img.rel, data |-> [kind |-> "bytes", v |-> img_bytes]])
    /\ spc' = "done"
    /\ UNCHANGED <<img, img_bytes, varsInfer, varsClip, varsRun, varsTex, varsCopy>>

InitSize ==
    /\ IdleInfer
    /\ IdleClip
    /\ IdleRun
    /\ IdleTex
    /\ IdleCopy
    /\ img \in ImageFixtures
    /\ img_bytes = <<>>
    /\ size_out = None
    /\ spc = "file"

NextSize ==
    \/ \E n \in 0..Len(img.bytes) : Truncate(n)
    \/ ReadSize

SpecSize == InitSize /\ [][NextSize]_vars

\* C12: a file cut before the end of its width/height fields has no size:
\* the reader returns none for it.
C12_TruncatedHasNoSize ==
    (spc = "done" /\ Len(img_bytes) < img.fields_end) => size_out = None

\* C13: a whole WEBP file of any of the three variants is reported with each
\* field value plus one as its width and height.
C13_WebpFieldPlusOne ==
    (spc = "done" /\ img.fmt \in WebpFormats /\ img_bytes = img.bytes)
        => size_out = SizeOf(img.fw + 1, img.fh + 1)

-----------------------------------------------------------------------------
(* The texture of a skeleton bundle, lines 474-486 and 509-529 *)

S_a_size_4 == S_atlas_text
S_a_size_8 == <<"h", ".", "p", "n", "g", " ", "S", "I", "Z", "E", ":", "8", " ", ",", " ", "8">>
S_a_size_2 == <<"s", "i", "z", "e", ":", "2", ",", "2">>
S_a_plain == <<"h", ".", "p", "n", "g", " ", "s", "i", "z", "e">>

\* atlas texts with the size they declare (declared FALSE: no marker)
AtlasChoices ==
    { [text |-> S_a_size_4, declared |-> TRUE, W |-> 4, H |-> 4],
      [text |-> S_a_size_8, declared |-> TRUE, W |-> 8, H |-> 8],
      [text |-> S_a_size_2, declared |-> TRUE, W |-> 2, H |-> 2],
      [text |-> S_a_plain, declared |-> FALSE, W |-> 0, H |-> 0] }

\* textureIndices: the hint is hint when its first element is an int
HintChoices ==
    { [indices |-> IntList(<<>>), given |-> FALSE, hint |-> 0],
      [indices |-> IntList(<<0>>), given |-> TRUE, hint |-> 0],
      [indices |-> IntList(<<1>>), given |-> TRUE, hint |-> 1],
      [indices |-> IntList(<<1, 0>>), given |-> TRUE, hint |-> 1],
      [indices |-> IntList(<<2>>), given |-> TRUE, hint |-> 2],
      [indices |-> IntList(<<-1>>), given |-> TRUE, hint |-> -1],
      [indices |-> PyList(<< PyBool(TRUE) >>), given |-> TRUE, hint |-> 1],
      [indices |-> PyList(<< PyStr(<<"1">>) >>), given |-> FALSE, hint |-> 0] }

S_T_cd == <<"c", "d", "0", "1">>
S_T_ef == <<"e", "f", "0", "1">>
S_T_AB == <<"A", "B", "0", "1">>

\* identifier tables
TableChoices ==
    { <<>>,
      << S_R12 >>,
      << S_R12, S_T_cd >>,
      << S_T_cd, S_R12 >>,
      << S_T_ef, S_R12 >>,
      << S_T_AB, S_T_cd >> }

\* image files below native_root with the dimensions they hold (sized FALSE:
\* a file the readers get no dimensions from)
TexFile(dir, name, bytes, sized, w, h) ==
    [rel |-> Join(dir, name), data |-> [kind |-> "bytes", v |-> bytes],
     sized |-> sized, w |-> w, h |-> h]

T_ab_p == TexFile(<<"a", "b">>, <<"p", ".", "p", "n", "g">>, PngFile(4, 4), TRUE, 4, 4)
T_ab_q == TexFile(<<"a", "b">>, <<"q", ".", "p", "n", "g">>, PngFile(8, 8), TRUE, 8, 8)
T_ab_r == TexFile(<<"a", "b">>, <<"r", ".", "w", "e", "b", "p">>, WebpVp8xFile(7, 7), TRUE, 8, 8)
T_cd_u == TexFile(<<"c", "d">>, <<"u", ".", "p", "n", "g">>, PngFile(8, 8), TRUE, 8, 8)
T_cd_v == TexFile(<<"c", "d">>, <<"v", ".", "j", "p", "g">>, JpegFile(4, 4), TRUE, 4, 4)
T_cd_w == TexFile(<<"c", "d">>, <<"w", ".", "p", "n", "g">>, SubSeq(PngFile(4, 4), 1, 20), FALSE, 0, 0)

\* the files below native_root, in os.walk order
TexNativeChoices ==
    { <<>>,
      << T_ab_p >>,
      << T_ab_p, T_ab_q, T_cd_u, T_cd_v >>,
      << T_ab_q, T_ab_p, T_cd_v, T_cd_u >>,
      << T_ab_r, T_ab_q, T_ab_p >>,
      << T_cd_w, T_cd_u, T_cd_v, T_ab_q, T_ab_r >>,
      << T_cd_w, T_cd_v, T_ab_p >>,
      << T_cd_u, T_cd_w >> }

PlainFile(f) == [rel |-> f.rel, data |-> f.data]

\* the skeleton entry of a case, as extract_skeleton_entries returns it
TexSkeleton(case) ==
    [name           |-> PyStr(S_hero),
     atlasText      |-> PyStr(case.atlas.text),
     skeletonJson   |-> PyDict(<<>>),
     textureNames   |-> PyList(<< PyStr(S_hero_png) >>),
     textureIndices |-> case.hint.indices]

TexUuids(case) == [i \in 1..Len(case.table) |-> PyStr(case.table[i])]

TexNative(case) == [i \in 1..Len(case.native) |-> PlainFile(case.native[i])]

\* lines 474-486 then 509-529 for the skeleton entry of the case
ResolveTexture ==
    /\ tpc = "case"
    /\ target_image' = TargetImage(TexSkeleton(tex_case), TexUuids(tex_case),
                                   IndexImages(TexNative(tex_case), Len(tex_case.native)))
    /\ tpc' = "done"
    /\ UNCHANGED <<tex_case, varsInfer, varsClip, varsRun, varsSize, varsCopy>>

InitTexture ==
    /\ IdleInfer
    /\ IdleClip
    /\ IdleRun
    /\ IdleSize
    /\ IdleCopy
    /\ tex_case \in [atlas : AtlasChoices, hint : HintChoices,
                     table : TableChoices, native : TexNativeChoices]
    /\ target_image = <<>>
    /\ tpc = "case"

NextTexture == ResolveTexture

SpecTexture == InitTexture /\ [][NextTexture]_vars

\* the table entry the hint points at: the first entry without a usable hint
HintedEntry(case) ==
    IF case.hint.given /\ 0 <= case.hint.hint /\ case.hint.hint < Len(case.table)
    THEN case.table[case.hint.hint + 1] ELSE case.table[1]

\* the images of the bucket named by the first two characters of ref, in scan order
InBucket(case, ref) ==
    LET Is(f) == FirstSegment(f.rel) = SubSeq(ref, 1, 2)
    IN  SelectSeq(case.native, Is)

HasDeclaredSize(case, f) ==
    case.atlas.declared /\ f.sized /\ f.w = case.atlas.W /\ f.h = case.atlas.H

\* the first candidate with the declared size, when there is one, else the
\* first candidate, else nothing
SizeThenFirst(case, cand) ==
    IF \E i \in 1..Len(cand) : HasDeclaredSize(case, cand[i])
    THEN LET i == CHOOSE i \in 1..Len(cand) :
                     /\ HasDeclaredSize(case, cand[i])
                     /\ \A j \in 1..(i - 1) : ~HasDeclaredSize(case, cand[j])
         IN  << PlainFile(cand[i]) >>
    ELSE IF cand # <<>> THEN << PlainFile(cand[1]) >>
    ELSE <<>>

\* C14 (amended): the texture-index hint selects the identifier-table entry
\* (the first entry when the hint is absent, not an integer or out of range)
\* and with it the bucket; among that bucket's candidates the first whose
\* dimensions equal the declared size is chosen, and without such a candidate
\* the first candidate in scan order; an empty table or bucket gives nothing.
C14_HintSelectsBucketThenSizeThenFirst ==
    tpc = "done" =>
        target_image = IF tex_case.table = <<>> THEN <<>>
                       ELSE SizeThenFirst(tex_case, InBucket(tex_case, HintedEntry(tex_case)))

\* a bundle whose hint is 1, in range, whose bucket holds several candidates
\* none of which has the declared size: the first candidate of the hinted
\* entry's bucket was chosen
C14_Witness ==
    /\ tpc = "done"
    /\ tex_case.hint.given /\ tex_case.hint.hint = 1 /\ Len(tex_case.table) = 2
    /\ tex_case.atlas.declared
    /\ Len(InBucket(tex_case, tex_case.table[2])) >= 2
    /\ InBucket(tex_case, tex_case.table[1]) # <<>>
    /\ \A i \in 1..Len(tex_case.native) : ~HasDeclaredSize(tex_case, tex_case.native[i])
    /\ target_image = << PlainFile(InBucket(tex_case, tex_case.table[2])[1]) >>

\* C14 (as stated): among the candidates of the selected bucket, the first with
\* the declared size is chosen; otherwise the candidate the hint designates;
\* the first candidate only when neither applies.
C14_SizeThenHintThenFirst ==
    LET cand == IF tex_case.table = <<>> THEN <<>>
                ELSE InBucket(tex_case, HintedEntry(tex_case))
        h    == tex_case.hint.hint
    IN  (tpc = "done" /\ Len(cand) >= 2) =>
            target_image =
                IF \E i \in 1..Len(cand) : HasDeclaredSize(tex_case, cand[i])
                THEN SizeThenFirst(tex_case, cand)
                ELSE IF tex_case.hint.given /\ 0 <= h /\ h < Len(cand)
                THEN << PlainFile(cand[h + 1]) >>
                ELSE << PlainFile(cand[1]) >>

-----------------------------------------------------------------------------
(* copy_image_resolving_stub on its own, lines 217-241 *)

B_url_h_t == B_http \o B_colon_slashes \o <<104, 47, 116>>

B_stub_text == B_No_Content \o <<32>> \o B_url_h_t

\* a source file with what it is: genuine (it starts with an image signature),
\* sentinel (its text holds the phrase), has_url (its text holds a locator)
CopySource(name, bytes, genuine, sentinel, has_url) ==
    [rel |-> name, data |-> [kind |-> "bytes", v |-> bytes],
     genuine |-> genuine, sentinel |-> sentinel, has_url |-> has_url]

CopySources ==
    { CopySource(S_a_png, PngFile(4, 4), TRUE, FALSE, FALSE),
      CopySource(S_a_png, PngFile(4, 4) \o B_stub_text, TRUE, TRUE, TRUE),
      CopySource(S_a_jpg, JpegFile(4, 4), TRUE, FALSE, FALSE),
      CopySource(S_a_webp, WebpVp8lFile(3, 3) \o B_url_h_t, TRUE, FALSE, TRUE),
      CopySource(S_a_webp, B_RIFF \o <<4, 0, 0, 0>> \o <<87, 65, 86, 69>> \o B_stub_text, FALSE, TRUE, TRUE),
      CopySource(S_a_png, B_stub_text, FALSE, TRUE, TRUE),
      CopySource(S_a_png, B_url_h_t \o <<32>> \o B_No_Content, FALSE, TRUE, TRUE),
      CopySource(S_a_png, B_No_Content, FALSE, TRUE, FALSE),
      CopySource(S_a_png, B_url_h_t, FALSE, FALSE, TRUE),
      CopySource(S_a_png, <<137, 80, 78>>, FALSE, FALSE, FALSE),
      CopySource(S_a_png, <<>>, FALSE, FALSE, FALSE) }

\* what each operation of the call does, and what dst holds before the call
CopyIoChoices ==
    [read : {"ok", "fails"},
     copy : {"ok", "fails", "fails_midway", "fails_after_data"},
     fetch : {"ok", "fails"},
     write : {"ok", "fails", "fails_midway"},
     dst : {<<>>, << [kind |-> "bytes", v |-> <<111>>] >>}]

\* copy_image_resolving_stub(src, dst)
CopyCall ==
    /\ kpc = "call"
    /\ copy_out' = CopyImage([rel |-> copy_src.rel, data |-> copy_src.data], copy_io.dst, copy_io)
    /\ kpc' = "done"
    /\ UNCHANGED <<copy_src, copy_io, varsInfer, varsClip, varsRun, varsSize, varsTex>>

InitCopy ==
    /\ IdleInfer
    /\ IdleClip
    /\ IdleRun
    /\ IdleSize
    /\ IdleTex
    /\ copy_src \in CopySources
    /\ copy_io \in CopyIoChoices
    /\ copy_out = <<>>
    /\ kpc = "call"

NextCopy == CopyCall

SpecCopy == InitCopy /\ [][NextCopy]_vars

Count(q, x) == Cardinality({i \in 1..Len(q) : q[i] = x})

\* a locator is extracted: src could be read and holds the phrase and a locator
LocatorExtracted == copy_io.read = "ok" /\ copy_src.sentinel /\ copy_src.has_url

\* the decision chain: a genuine source is copied and nothing is fetched; a
\* source that is not genuine and gives a locator is fetched once and never
\* copied, and a failed fetch leaves dst alone and gives false; any other source
\* is copied as a last resort; a copy that gives true left dst equal to src
CopyChainFollowed ==
    kpc = "done" =>
        /\ copy_src.genuine /\ copy_io.read = "ok" => copy_out.ops = <<"copy">>
        /\ ~copy_src.genuine /\ LocatorExtracted =>
              /\ Count(copy_out.ops, "fetch") = 1
              /\ Count(copy_out.ops, "copy") = 0
              /\ copy_io.fetch = "fails" =>
                    /\ copy_out.result = FALSE
                    /\ copy_out.dst = copy_io.dst
                    /\ copy_out.written = "no"
        /\ Count(copy_out.ops, "fetch") > 0 => copy_src.sentinel
        /\ ~LocatorExtracted => copy_out.ops = <<"copy">>
        /\ copy_out.ops = <<"copy">> /\ copy_out.result = TRUE
              => copy_out.dst = << copy_src.data >>

\* C15: the call follows the decision chain, and its result is true exactly
\* when bytes were written to dst.
C15_ChainAndResultIffWritten ==
    /\ CopyChainFollowed
    /\ kpc = "done" => (copy_out.result = TRUE <=> copy_out.written # "no")

-----------------------------------------------------------------------------
(* The descriptors of the atlas groups, lines 553-593 *)

\* C16: a run that reaches its summary has left, for every group, the
\* descriptor of that group at the group's descriptor path, and no two groups
\* have the same descriptor path.
C16_OwnDescriptorPerGroup ==
    pc = "done" =>
        /\ \A gi, gj \in 1..Len(atlas_groups) :
              gi # gj => PlistPath(atlas_groups[gi].key) # PlistPath(atlas_groups[gj].key)
        /\ \A gi \in 1..Len(atlas_groups) :
              LET g == atlas_groups[gi]
              IN  /\ Exists(fs, PlistPath(g.key))
                  /\ fs[PlistPath(g.key)].kind = "plist"
                  /\ fs[PlistPath(g.key)].v.frames
                        = [i \in 1..Len(g.frames) |-> FrameEntry(g.frames[i])]

====
